---- MODULE Spec2Model ----
(***************************************************************************)
(* Elevation regions of fvtt-terrain-mapper: the segment adjusters of      *)
(* scripts/regions/Region.js (plateau, stairs, ramp), the adjuster of      *)
(* scripts/regions/RegionElevationHandler.js (_modifySegments) and the     *)
(* ramp elevation function.                                                *)
(*                                                                         *)
(* A scan is modelled one loop iteration per step.  The array index i is   *)
(* 0-based as in the JavaScript; TLA+ sequences are 1-based, so the code's *)
(* segments[i] is segments[i + 1] here.                                    *)
(*                                                                         *)
(* Waypoints are JavaScript objects.  The host hands over segments whose   *)
(* waypoints are objects of their own; a split of a MOVE segment puts one  *)
(* object ix into two segments (the first half's `to` and the second       *)
(* half's `from`), so a later write to one of them is a write to both.     *)
(* `shared` holds the 0-based indices k at which segments[k].to and        *)
(* segments[k + 1].from are one object.                                    *)
(***************************************************************************)
EXTENDS Integers, Sequences, FiniteSets, TLC

VARIABLES
  segments,         \* the segment array being adjusted (mutated in place)
  shared,           \* indices k: segments[k].to and segments[k + 1].from are one object
  i,                \* loop index of the running scan
  n,                \* loop bound of the running scan
  entered,          \* local `entered` of the running scan
  up,               \* local `up` of modifySegmentsForStairs
  targetElevation,  \* local `targetElevation` of modifySegmentsForStairs
  pc,               \* the function that runs, or the one called next
  behavior,         \* the region behavior (behavior.type, .disabled, .system.*)
  handler,          \* the RegionElevationHandler of the region (its getters' values)
  freefall,         \* option freefall of segmentizeMovement
  terrainFloor,     \* scene background elevation (sceneFloor)
  pass,             \* 1: adjustment of the input, 2: adjustment of the first output
  input,            \* the list handed to the first adjustment
  firstOut,         \* the list the first adjustment returned
  last,             \* what the latest loop iteration looked at (history of one step)
  probe,            \* the last two elevation queries and their answers, newest first
  axis,             \* a region, a direction and the axis computed for them
  canvas,           \* a region document: its shapes, its behaviors and their MIN_MAX flags
  elevator          \* moves of tokens through an elevator region and their handlers

vars == <<segments, shared, i, n, entered, up, targetElevation, pc, behavior, handler,
          freefall, terrainFloor, pass, input, firstOut, last, probe, axis, canvas, elevator>>

\* The variables of the segment adjusters and of the elevation queries.
adjusterVars == <<segments, shared, i, n, entered, up, targetElevation, pc, behavior, handler,
                  freefall, terrainFloor, pass, input, firstOut, last, probe>>

-----------------------------------------------------------------------------
(* Bounds of the model *)

\* Longest segment list handed to an adjuster.
MaxLen == 3

-----------------------------------------------------------------------------
(* Host vocabulary *)

ENTER == "ENTER"
MOVE == "MOVE"
EXIT == "EXIT"
MOVEMENT_SEGMENT_TYPES == {ENTER, MOVE, EXIT}

SetElevation == "terrainmapper.setElevation"
PLATEAU == "plateau"
STAIRS == "stairs"
RAMP == "ramp"
NONE == "none"

\* A JavaScript value that may be undefined: <<>> is undefined, <<v>> is v.
Undefined == <<>>
Some(v) == <<v>>
\* JavaScript truthiness of an optional number.
Truthy(o) == o # Undefined /\ o[1] # 0

MathMax(a, b) == IF a >= b THEN a ELSE b
MathMin(a, b) == IF a <= b THEN a ELSE b

\* Math.round of the fraction num / den (den > 0): the nearest integer, halves up.
MathRound(num, den) == ((2 * num) + den) \div (2 * den)

\* Math.floor of the fraction num / den (den > 0).
MathFloor(num, den) == num \div den

Waypoint(x, y, e) == [x |-> x, y |-> y, elevation |-> e]

regionWaypointsXYEqual(a, b) == a.x = b.x /\ a.y = b.y

regionWaypointsEqual(a, b) == a.x = b.x /\ a.y = b.y /\ a.elevation = b.elevation

-----------------------------------------------------------------------------
(* The segment array and its objects *)

\* Array.prototype.splice(start, deleteCount, ...items) with a 0-based start.
Splice(s, start, deleteCount, items) ==
  SubSeq(s, 1, start) \o items \o SubSeq(s, start + deleteCount + 1, Len(s))

\* The shared objects after one segment is inserted at 0-based index p.
SharedAfterInsert(sh, p) == { IF k >= p THEN k + 1 ELSE k : k \in sh }

\* The shared objects after segments[k] is split in two around a new object ix:
\* the first half is at k, the second at k + 1 and keeps the old `to` object.
SharedAfterSplit(sh, k) == { IF j >= k THEN j + 1 ELSE j : j \in sh } \cup {k}

\* segments[k].from.elevation = e, seen through every holder of the object.
SetFromElevation(s, sh, k, e) ==
  LET s1 == [s EXCEPT ![k + 1].from.elevation = e]
  IN IF (k - 1) \in sh THEN [s1 EXCEPT ![k].to.elevation = e] ELSE s1

\* segments[k].to.elevation = e, seen through every holder of the object.
SetToElevation(s, sh, k, e) ==
  LET s1 == [s EXCEPT ![k + 1].to.elevation = e]
  IN IF k \in sh THEN [s1 EXCEPT ![k + 2].from.elevation = e] ELSE s1

\* The locals of a scan, as one value.
Locals == [ segments |-> segments, shared |-> shared, i |-> i, n |-> n,
            entered |-> entered, up |-> up, targetElevation |-> targetElevation,
            threw |-> FALSE ]

-----------------------------------------------------------------------------
(* Helper functions of Region.js and RegionElevationHandler.js (the two    *)
(* files hold the same text of both).                                      *)

\* The vertical move with its two elevations exchanged.
constructVerticalMoveSegment_exchanged(waypoint, target) ==
  [ type |-> MOVE,
    from |-> [x |-> waypoint.x, y |-> waypoint.y, elevation |-> target],
    to   |-> [x |-> waypoint.x, y |-> waypoint.y, elevation |-> waypoint.elevation] ]

constructVerticalMoveSegment(waypoint, target) ==
  [ type |-> MOVE,
    from |-> [x |-> waypoint.x, y |-> waypoint.y, elevation |-> waypoint.elevation],
    to   |-> [x |-> waypoint.x, y |-> waypoint.y, elevation |-> target] ]

\* An entry of the array that holds no segment (null or undefined).
NoSegment == [ type |-> "undefined" ]
IsSegment(s, k) == 0 <= k /\ k < Len(s) /\ s[k + 1].type \in MOVEMENT_SEGMENT_TYPES

\* The previous segment is read without the fallback: a missing one throws.
insertVerticalMoveToTerrainFloor_noFallback(st, floor) ==
  LET k == st.i
      s1 == SetToElevation(SetFromElevation(st.segments, st.shared, k, floor),
                           st.shared, k, floor)
  IN IF ~IsSegment(s1, k - 1) THEN [st EXCEPT !.segments = s1, !.threw = TRUE]
     ELSE IF s1[k].to.elevation # floor
       THEN [st EXCEPT !.segments = Splice(s1, k, 0, <<constructVerticalMoveSegment(s1[k].to, floor)>>),
                       !.shared = SharedAfterInsert(st.shared, k),
                       !.i = st.i + 1,
                       !.n = st.n + 1]
       ELSE [st EXCEPT !.segments = s1]

\* The locals after the call at index st.i, i and n advanced by the returned count.
insertVerticalMoveToTerrainFloor(st, floor) ==
  LET k == st.i
      s1 == SetToElevation(SetFromElevation(st.segments, st.shared, k, floor),
                           st.shared, k, floor)
      \* segments[i - 1] ?? { to: segment.from }
      prevTo == IF IsSegment(s1, k - 1) THEN s1[k].to ELSE s1[k + 1].from
  IN IF prevTo.elevation # floor
       THEN [st EXCEPT !.segments = Splice(s1, k, 0, <<constructVerticalMoveSegment(prevTo, floor)>>),
                       !.shared = SharedAfterInsert(st.shared, k),
                       !.i = st.i + 1,
                       !.n = st.n + 1]
       ELSE [st EXCEPT !.segments = s1]

-----------------------------------------------------------------------------
(* The elevation rule: RegionElevationHandler.js                            *)

\* The parameter u of the point of the line min -> max closest to c, as the
\* fraction num / den with den = |max - min|^2 (foundry.utils.closestPointToSegment
\* returns min for u < 0, max for u > 1 and min + u (max - min) otherwise).
AxisU(c, min, max) ==
  LET dx == max.x - min.x
      dy == max.y - min.y
  IN [ num |-> ((c.x - min.x) * dx) + ((c.y - min.y) * dy), den |-> (dx * dx) + (dy * dy) ]

\* t0 = Math.clamp(distance(min, closestPt) / distance(min, max), 0, 1): the
\* closest point is min + u (max - min) with u clamped to [0, 1], so the
\* quotient of the two distances is that u.
RampT0(waypoint, mm) ==
  LET u == AxisU(waypoint, mm.min, mm.max)
  IN [ num |-> MathMax(0, MathMin(u.num, u.den)), den |-> u.den ]

\* const { rampFloor, plateauElevation, rampStepHeight } = this: the class has
\* the getter rampStepSize and no property rampStepHeight, so the third is undefined.
rampStepHeight(h) == Undefined

\* The interpolation from the elevation down to the floor.
RampInterpolate_descending(rampFloor, plateauElevation, stepHeight, mm, waypoint) ==
  IF mm = Undefined THEN waypoint.elevation
  ELSE
    LET t0 == RampT0(waypoint, mm[1])
        delta == plateauElevation - rampFloor
    IN IF t0.num = 0 THEN rampFloor
       ELSE IF t0.num = t0.den THEN plateauElevation
       ELSE MathRound((plateauElevation * t0.den) - (t0.num * delta), t0.den)

\* The body of #rampElevation below its destructuring, for a step height that
\* is undefined or a number.
RampInterpolate(rampFloor, plateauElevation, stepHeight, mm, waypoint) ==
  IF mm = Undefined THEN waypoint.elevation
  ELSE
    LET t0 == RampT0(waypoint, mm[1])
        delta == plateauElevation - rampFloor
    IN IF t0.num = 0 THEN rampFloor
       ELSE IF t0.num = t0.den THEN plateauElevation
       ELSE IF ~Truthy(stepHeight)
         THEN MathRound((rampFloor * t0.den) + (t0.num * delta), t0.den)
         ELSE rampFloor + (MathFloor(t0.num * delta, t0.den * stepHeight[1]) * stepHeight[1])

rampElevation(h, waypoint) ==
  RampInterpolate(h.rampFloor, h.plateauElevation, rampStepHeight(h), h.minMax, waypoint)

\* switch ( this.algorithm ): the class has no getter `algorithm`; h.algorithm is
\* the algorithm of the region, the one isPlateau(region) and isRamp(region) read.
elevationUponEntry(h, location) ==
  CASE h.algorithm = NONE -> location.elevation
    [] h.algorithm = PLATEAU -> h.plateauElevation
    [] h.algorithm = RAMP -> rampElevation(h, location)

\* Region[MODULE_ID].nearestGroundElevation: the surface below the waypoint,
\* the region's if the waypoint is on or above it, else the scene floor.
nearestGroundElevation(h, a) ==
  LET e == elevationUponEntry(h, a)
  IN IF a.elevation >= e THEN e ELSE terrainFloor

\* Number.prototype.between, inclusive.
Between(e, a, b) == MathMin(a, b) <= e /\ e <= MathMax(a, b)

\* The height of a above the plane of _plateauPlane, times the square of the
\* axis length for a ramp: its sign is the side of the plane a is on.
PlaneSide(h, a) ==
  IF h.algorithm = PLATEAU THEN a.elevation - h.plateauElevation
  ELSE LET u == AxisU(a, h.minMax[1].min, h.minMax[1].max)
       IN ((a.elevation - h.rampFloor) * u.den) - (u.num * (h.plateauElevation - h.rampFloor))

\* Plane.lineSegmentIntersects / lineSegmentIntersection, x and y of the point.
PlaneIntersection(h, a, b) ==
  LET ga == PlaneSide(h, a)
      gb == PlaneSide(h, b)
  IN IF ga = gb \/ (ga > 0 /\ gb > 0) \/ (ga < 0 /\ gb < 0) THEN Undefined
     ELSE Some([ x |-> a.x + (((b.x - a.x) * ga) \div (ga - gb)),
                 y |-> a.y + (((b.y - a.y) * ga) \div (ga - gb)) ])

\* An optional waypoint: Undefined is null.
plateauSegmentIntersection(h, a, b) ==
  IF regionWaypointsXYEqual(a, b)
    THEN LET e == MathMax(nearestGroundElevation(h, a), nearestGroundElevation(h, b))
         IN IF Between(e, a.elevation, b.elevation) THEN Some([a EXCEPT !.elevation = e])
            ELSE Undefined
    ELSE LET p == PlaneIntersection(h, a, b)
         IN IF p = Undefined THEN Undefined
            ELSE Some(Waypoint(p[1].x, p[1].y,
                               elevationUponEntry(h, Waypoint(p[1].x, p[1].y, 0))))

\* Every division of PlaneIntersection is exact on the segment a -> b.
ExactIntersection(h, a, b) ==
  LET ga == PlaneSide(h, a)
      gb == PlaneSide(h, b)
  IN (ga # gb) => /\ ((b.x - a.x) * ga) % (IF ga > gb THEN ga - gb ELSE gb - ga) = 0
                  /\ ((b.y - a.y) * ga) % (IF ga > gb THEN ga - gb ELSE gb - ga) = 0


-----------------------------------------------------------------------------
(* behavior.system of a setElevation behavior, as Region.js uses it         *)

\* The rule of the behavior: its elevation, floor, step size and ramp axis
\* (flag MIN_MAX of the behavior).
BehaviorRule ==
  [ algorithm |-> behavior.algorithm, plateauElevation |-> behavior.elevation,
    rampFloor |-> behavior.floor, rampStepSize |-> behavior.rampStepSize,
    minMax |-> behavior.minMax ]

\* behavior.system.plateauElevation(waypoint): the elevation of the plateau, or
\* of the ramp at the waypoint (interpolated, in steps of the step size if any).
plateauElevation(waypoint) ==
  IF behavior.algorithm = RAMP
    THEN RampInterpolate(behavior.floor, behavior.elevation, Some(behavior.rampStepSize),
                         behavior.minMax, waypoint)
    ELSE behavior.elevation

\* behavior.system.plateauSegmentIntersection(a, b)
behaviorSegmentIntersection(a, b) ==
  IF regionWaypointsXYEqual(a, b)
    THEN LET ea == IF a.elevation >= plateauElevation(a) THEN plateauElevation(a) ELSE terrainFloor
             eb == IF b.elevation >= plateauElevation(b) THEN plateauElevation(b) ELSE terrainFloor
             e == MathMax(ea, eb)
         IN IF Between(e, a.elevation, b.elevation) THEN Some([a EXCEPT !.elevation = e])
            ELSE Undefined
    ELSE LET p == PlaneIntersection(BehaviorRule, a, b)
         IN IF p = Undefined THEN Undefined
            ELSE Some(Waypoint(p[1].x, p[1].y, plateauElevation(Waypoint(p[1].x, p[1].y, 0))))

\* The split that keeps only from -> ix.
SplitAt_firstHalfOnly(st, ix) ==
  LET segment == st.segments[st.i + 1]
  IN [st EXCEPT !.segments = Splice(st.segments, st.i, 1,
                                    << [type |-> MOVE, from |-> segment.from, to |-> ix] >>)]

\* The second half starts where the segment started, not at ix.
SplitAt_secondHalfFromStart(st, ix) ==
  LET segment == st.segments[st.i + 1]
  IN [st EXCEPT !.segments = Splice(st.segments, st.i, 1,
                                    << [type |-> MOVE, from |-> segment.from, to |-> ix],
                                       [type |-> MOVE, from |-> segment.from, to |-> segment.to] >>),
                !.shared = SharedAfterSplit(st.shared, st.i),
                !.n = st.n + 1]

\* splice(i, 1, toIx, fromIx): segments[i] replaced by from -> ix and ix -> to.
SplitAt(st, ix) ==
  LET segment == st.segments[st.i + 1]
  IN [st EXCEPT !.segments = Splice(st.segments, st.i, 1,
                                    << [type |-> MOVE, from |-> segment.from, to |-> ix],
                                       [type |-> MOVE, from |-> ix, to |-> segment.to] >>),
                !.shared = SharedAfterSplit(st.shared, st.i),
                !.n = st.n + 1]

\* The vertical move is inserted and i is left at the ENTER.
InsertAfter_noAdvance(st, vSegment) ==
  [st EXCEPT !.segments = Splice(st.segments, st.i + 1, 0, <<vSegment>>),
             !.shared = SharedAfterInsert(st.shared, st.i + 1),
             !.n = st.n + 1]

\* splice(i + 1, 0, vSegment); i += 1; n += 1 (the vertical move after an ENTER).
InsertAfter(st, vSegment) ==
  [st EXCEPT !.segments = Splice(st.segments, st.i + 1, 0, <<vSegment>>),
             !.shared = SharedAfterInsert(st.shared, st.i + 1),
             !.i = st.i + 1,
             !.n = st.n + 1]

\* segment.from.elevation = ef; segment.to.elevation = et (in this order).
SetElevations(st, ef, et) ==
  [st EXCEPT !.segments = SetToElevation(SetFromElevation(st.segments, st.shared, st.i, ef),
                                         st.shared, st.i, et)]

-----------------------------------------------------------------------------
(* modifySegmentsForPlateau: the cases of the switch.  Each takes the       *)
(* locals before the case and returns them at its break.                    *)

plateauENTER(st) ==
  LET segment == st.segments[st.i + 1]
      elevation == behavior.elevation
  IN IF elevation = segment.to.elevation
       THEN [st EXCEPT !.entered = TRUE]
       ELSE InsertAfter([st EXCEPT !.entered = TRUE],
                        constructVerticalMoveSegment(segment.to, elevation))

\* Case MOVE with Math.min in the place of Math.max.
plateauMOVE_min(st) ==
  LET segment == st.segments[st.i + 1]
      elevation == behavior.elevation
  IN IF st.entered
       THEN LET s1 == SetFromElevation(st.segments, st.shared, st.i,
                                       MathMin(elevation, segment.from.elevation))
            IN [st EXCEPT !.segments = SetToElevation(s1, st.shared, st.i,
                                         MathMin(elevation, s1[st.i + 1].to.elevation))]
       ELSE st

plateauMOVE(st) ==
  LET segment == st.segments[st.i + 1]
      elevation == behavior.elevation
  IN IF st.entered
       THEN LET s1 == SetFromElevation(st.segments, st.shared, st.i,
                                       MathMax(elevation, segment.from.elevation))
            IN [st EXCEPT !.segments = SetToElevation(s1, st.shared, st.i,
                                         MathMax(elevation, s1[st.i + 1].to.elevation))]
       ELSE IF freefall /\ segment.from.elevation > elevation /\ segment.to.elevation < elevation
         THEN LET ix == IF regionWaypointsXYEqual(segment.from, segment.to)
                          THEN Some([segment.from EXCEPT !.elevation = elevation])
                          ELSE behaviorSegmentIntersection(segment.from, segment.to)
              IN IF ix = Undefined THEN st
                 ELSE IF regionWaypointsEqual(ix[1], segment.from)
                         \/ regionWaypointsEqual(ix[1], segment.to)
                   THEN st
                   ELSE SplitAt(st, ix[1])
         ELSE st

\* Case EXIT without the test of reset.
plateauEXIT_resetAlways(st) ==
  insertVerticalMoveToTerrainFloor([st EXCEPT !.entered = FALSE], terrainFloor)

plateauEXIT(st) ==
  LET segment == st.segments[st.i + 1]
      elevation == behavior.elevation
  IN IF ~behavior.reset
       THEN [st EXCEPT !.entered = FALSE]
       ELSE IF ~(freefall \/ (st.entered /\ elevation # segment.from.elevation))
         THEN [st EXCEPT !.entered = FALSE]
         ELSE insertVerticalMoveToTerrainFloor([st EXCEPT !.entered = FALSE], terrainFloor)

-----------------------------------------------------------------------------
(* modifySegmentsForStairs *)

\* const midE = Math.round((elevation - floor) * 0.5)
midE == MathRound(behavior.elevation - behavior.floor, 2)

stairsENTER(st) ==
  LET segment == st.segments[st.i + 1]
      goUp == segment.from.elevation <= midE
  IN [st EXCEPT !.entered = TRUE,
                !.up = goUp,
                !.targetElevation = IF goUp THEN behavior.elevation ELSE behavior.floor]

\* const cmpFn = up ? Math.max : Math.min
cmpFn(goUp, a, b) == IF goUp THEN MathMax(a, b) ELSE MathMin(a, b)

\* Case MOVE with Math.max whatever up is.
stairsMOVE_alwaysMax(st) ==
  LET segment == st.segments[st.i + 1]
  IN IF ~st.entered THEN st
     ELSE LET s1 == SetFromElevation(st.segments, st.shared, st.i,
                                     MathMax(st.targetElevation, segment.from.elevation))
          IN [st EXCEPT !.segments = SetToElevation(s1, st.shared, st.i,
                            MathMax(st.targetElevation, s1[st.i + 1].to.elevation))]

stairsMOVE(st) ==
  LET segment == st.segments[st.i + 1]
  IN IF ~st.entered THEN st
     ELSE LET s1 == SetFromElevation(st.segments, st.shared, st.i,
                                     cmpFn(st.up, st.targetElevation, segment.from.elevation))
          IN [st EXCEPT !.segments = SetToElevation(s1, st.shared, st.i,
                            cmpFn(st.up, st.targetElevation, s1[st.i + 1].to.elevation))]

\* Case EXIT without the test of reset.
stairsEXIT_resetAlways(st) ==
  LET segment == st.segments[st.i + 1]
  IN IF ~(st.entered \/ behavior.elevation = segment.from.elevation
                     \/ behavior.floor = segment.from.elevation)
       THEN st
       ELSE insertVerticalMoveToTerrainFloor([st EXCEPT !.entered = FALSE], terrainFloor)

stairsEXIT(st) ==
  LET segment == st.segments[st.i + 1]
  IN IF ~(st.entered \/ behavior.elevation = segment.from.elevation
                     \/ behavior.floor = segment.from.elevation)
       THEN st
       ELSE IF ~behavior.reset
         THEN [st EXCEPT !.entered = FALSE]
         ELSE insertVerticalMoveToTerrainFloor([st EXCEPT !.entered = FALSE], terrainFloor)

-----------------------------------------------------------------------------
(* modifySegmentsForRamp *)

rampENTER(st) ==
  LET segment == st.segments[st.i + 1]
      elevation == plateauElevation(segment.to)
  IN IF elevation = segment.to.elevation
       THEN [st EXCEPT !.entered = TRUE]
       ELSE InsertAfter([st EXCEPT !.entered = TRUE],
                        constructVerticalMoveSegment(segment.to, elevation))

rampMOVE(st) ==
  LET segment == st.segments[st.i + 1]
      currRampElevation == plateauElevation(segment.from)
  IN IF st.entered \/ segment.from.elevation = currRampElevation
       THEN LET s1 == SetFromElevation(st.segments, st.shared, st.i, currRampElevation)
            IN [st EXCEPT !.segments = SetToElevation(s1, st.shared, st.i,
                                         plateauElevation(s1[st.i + 1].to))]
       ELSE IF ~(freefall \/ segment.from.elevation = segment.to.elevation) THEN st
       ELSE LET ix == behaviorSegmentIntersection(segment.from, segment.to)
            IN IF ix = Undefined THEN st
               ELSE IF regionWaypointsEqual(ix[1], segment.from)
                       \/ regionWaypointsEqual(ix[1], segment.to)
                 THEN st
                 ELSE SplitAt(st, ix[1])

rampEXIT(st) ==
  LET segment == st.segments[st.i + 1]
  IN IF ~behavior.reset
       THEN [st EXCEPT !.entered = FALSE]
       ELSE IF ~(freefall \/ (st.entered /\ plateauElevation(segment.from) # segment.from.elevation))
         THEN [st EXCEPT !.entered = FALSE]
         ELSE insertVerticalMoveToTerrainFloor([st EXCEPT !.entered = FALSE], terrainFloor)


-----------------------------------------------------------------------------
(* RegionElevationHandler._modifySegments *)

handlerENTER(st) ==
  LET segment == st.segments[st.i + 1]
      elevation == elevationUponEntry(handler, segment.to)
  IN IF elevation = segment.to.elevation
       THEN [st EXCEPT !.entered = TRUE]
       ELSE InsertAfter([st EXCEPT !.entered = TRUE],
                        constructVerticalMoveSegment(segment.to, elevation))

\* The first part of case MOVE: `if ( !entered ) { ... }`.  A null intersection
\* makes segment.to null, and the statements that follow read its properties:
\* the call throws.
handlerMOVEnotEntered(st) ==
  LET segment == st.segments[st.i + 1]
      elevation == elevationUponEntry(handler, segment.from)
  IN IF st.entered THEN st
     ELSE IF segment.from.elevation = elevation THEN [st EXCEPT !.entered = TRUE]
     ELSE IF segment.from.elevation > elevation /\ segment.to.elevation < elevation
       THEN LET ix == IF regionWaypointsXYEqual(segment.from, segment.to)
                        THEN Some([segment.from EXCEPT !.elevation = elevation])
                        ELSE plateauSegmentIntersection(handler, segment.from, segment.to)
            IN IF ix = Undefined THEN [st EXCEPT !.threw = TRUE]
               ELSE SplitAt([st EXCEPT !.entered = TRUE], ix[1])
     ELSE st

\* The second part of case MOVE, from `const toElevation = ...` to the break.
handlerMOVEclamp(st1) ==
  LET segment == st1.segments[st1.i + 1]
      toElevation == elevationUponEntry(handler, segment.to)
  IN IF st1.threw THEN st1
     ELSE IF st1.entered
       THEN LET s1 == SetFromElevation(st1.segments, st1.shared, st1.i,
                                       MathMax(toElevation, segment.from.elevation))
            IN [st1 EXCEPT !.segments = SetToElevation(s1, st1.shared, st1.i,
                                          MathMax(toElevation, s1[st1.i + 1].to.elevation))]
     ELSE IF segment.to.elevation = toElevation THEN [st1 EXCEPT !.entered = TRUE]
     ELSE st1

handlerMOVE(st) == handlerMOVEclamp(handlerMOVEnotEntered(st))

handlerEXIT_exitItself(st) ==
  LET st1 == insertVerticalMoveToTerrainFloor([st EXCEPT !.entered = FALSE], terrainFloor)
  IN IF IsSegment(st1.segments, st1.i + 1)
       THEN [st1 EXCEPT !.segments = SetFromElevation(st1.segments, st1.shared, st1.i,
                                                      terrainFloor)]
       ELSE st1

handlerEXIT(st) ==
  LET st1 == insertVerticalMoveToTerrainFloor([st EXCEPT !.entered = FALSE], terrainFloor)
  IN \* const nextSegment = segments[i + 1]; if ( nextSegment ) ...
     IF IsSegment(st1.segments, st1.i + 1)
       THEN [st1 EXCEPT !.segments = SetFromElevation(st1.segments, st1.shared, st1.i + 1,
                                                      terrainFloor)]
       ELSE st1

\* get isElevated: isPlateau || isRamp (util.js reads the region's algorithm).
isElevated(h) == h.algorithm = PLATEAU \/ h.algorithm = RAMP

-----------------------------------------------------------------------------
(* The scans as steps *)

NoProbe == << >>
NoAxis == << >>
NoCanvas == << >>
NoElevator == << >>
NoStep ==
  [ fn |-> "none", type |-> "none", i |-> 0, before |-> <<>>, entered |-> FALSE,
    up |-> TRUE, targetElevation |-> 0 ]

\* The end of one loop iteration: the case's locals, then the loop's i += 1.
Iterate(fn, st) ==
  /\ segments' = st.segments
  /\ shared' = st.shared
  /\ i' = st.i + 1
  /\ n' = st.n
  /\ entered' = st.entered
  /\ up' = st.up
  /\ targetElevation' = st.targetElevation
  /\ pc' = IF st.threw THEN "threw" ELSE pc
  /\ last' = [ fn |-> fn, type |-> segments[i + 1].type, i |-> i,
               before |-> segments, entered |-> entered,
               up |-> up, targetElevation |-> targetElevation ]
  /\ UNCHANGED <<behavior, handler, freefall, terrainFloor, pass, input, firstOut, probe,
                 axis, canvas, elevator>>

\* The scan of function fn is at a segment of the given type.
At(fn, type) == pc = fn /\ i < n /\ segments[i + 1].type = type

\* Function fn is called: its guard, then its locals.
Call(at, fn, applies, next) ==
  /\ pc = at
  /\ IF applies
       THEN /\ pc' = fn
            /\ i' = 0
            /\ n' = Len(segments)
            /\ entered' = FALSE
            /\ up' = TRUE
            /\ targetElevation' = behavior.elevation
       ELSE /\ pc' = next
            /\ UNCHANGED <<i, n, entered, up, targetElevation>>
  /\ UNCHANGED <<segments, shared, behavior, handler, freefall, terrainFloor, pass, input,
                 firstOut, last, probe, axis, canvas, elevator>>

\* The loop of fn ends (i < n fails) and fn returns segments.
Return(fn, next) ==
  /\ pc = fn
  /\ i >= n
  /\ pc' = next
  /\ UNCHANGED <<segments, shared, i, n, entered, up, targetElevation, behavior, handler,
                 freefall, terrainFloor, pass, input, firstOut, last, probe,
                 axis, canvas, elevator>>

\* The guard of the three adjusters of Region.js.
IsSetElevation(algorithm) ==
  ~(behavior.type # SetElevation \/ behavior.disabled \/ behavior.algorithm # algorithm)

\* segmentizeMovement calls the three adjusters in this order.
PlateauCall == Call("call_plateau", "plateau", IsSetElevation(PLATEAU), "call_stairs")
PlateauEnter == At("plateau", ENTER) /\ \E st \in {plateauENTER(Locals)} : Iterate("plateau", st)
PlateauMove == At("plateau", MOVE) /\ \E st \in {plateauMOVE(Locals)} : Iterate("plateau", st)
PlateauExit == At("plateau", EXIT) /\ \E st \in {plateauEXIT(Locals)} : Iterate("plateau", st)
PlateauReturn == Return("plateau", "call_stairs")

StairsCall == Call("call_stairs", "stairs", IsSetElevation(STAIRS), "call_ramp")
StairsEnter == At("stairs", ENTER) /\ \E st \in {stairsENTER(Locals)} : Iterate("stairs", st)
StairsMove == At("stairs", MOVE) /\ \E st \in {stairsMOVE(Locals)} : Iterate("stairs", st)
StairsExit == At("stairs", EXIT) /\ \E st \in {stairsEXIT(Locals)} : Iterate("stairs", st)
StairsReturn == Return("stairs", "call_ramp")

RampCall == Call("call_ramp", "ramp", IsSetElevation(RAMP), "done")
RampEnter == At("ramp", ENTER) /\ \E st \in {rampENTER(Locals)} : Iterate("ramp", st)
RampMove == At("ramp", MOVE) /\ \E st \in {rampMOVE(Locals)} : Iterate("ramp", st)
RampExit == At("ramp", EXIT) /\ \E st \in {rampEXIT(Locals)} : Iterate("ramp", st)
RampReturn == Return("ramp", "done")

HandlerCall == Call("call_handler", "handler", isElevated(handler), "done")
HandlerEnter == At("handler", ENTER) /\ \E st \in {handlerENTER(Locals)} : Iterate("handler", st)
HandlerMove == At("handler", MOVE) /\ \E st \in {handlerMOVE(Locals)} : Iterate("handler", st)
HandlerExit == At("handler", EXIT) /\ \E st \in {handlerEXIT(Locals)} : Iterate("handler", st)
HandlerReturn == Return("handler", "done")

\* The returned list is handed to the same adjuster once more.
AdjustAgain ==
  /\ pc = "done"
  /\ pass = 1
  /\ pass' = 2
  /\ pc' = IF handler.algorithm = NONE THEN "call_plateau" ELSE "call_handler"
  /\ firstOut' = segments
  /\ last' = NoStep
  /\ UNCHANGED <<segments, shared, i, n, entered, up, targetElevation, behavior, handler,
                 freefall, terrainFloor, input, probe, axis, canvas, elevator>>


\* elevationUponEntry is asked for the elevation at a location; probe keeps the
\* last two answers, the newest first.
Probe(location) ==
  /\ pc = "probe"
  /\ probe' = SubSeq(<< [ location |-> location,
                          elevation |-> elevationUponEntry(handler, location) ] >> \o probe,
                     1, MathMin(2, Len(probe) + 1))
  /\ UNCHANGED <<segments, shared, i, n, entered, up, targetElevation, pc, behavior, handler,
                 freefall, terrainFloor, pass, input, firstOut, last, axis, canvas, elevator>>

-----------------------------------------------------------------------------
(* The segments the wrapped Region#segmentizeMovement returns: a path from  *)
(* (0, 0), each segment starting where the one before ends.                 *)

Elevations == {0, 10, 20}
Advances == {0, 6}
Legs == [type : MOVEMENT_SEGMENT_TYPES, dx : Advances, elevation : Elevations]

\* The host alternates: an ENTER follows an EXIT (or opens the list), a MOVE or
\* an EXIT follows an ENTER or a MOVE (or opens the list, the token starting inside).
HostOrder(legs) ==
  \A k \in 2..Len(legs) : (legs[k].type = ENTER) <=> (legs[k - 1].type = EXIT)

LegSeqs == UNION { { legs \in [1..len -> Legs] : HostOrder(legs) } : len \in 1..MaxLen }

RECURSIVE XAfter(_, _)
XAfter(legs, k) == IF k = 0 THEN 0 ELSE XAfter(legs, k - 1) + legs[k].dx

BuildSegments(e0, legs) ==
  [ k \in 1..Len(legs) |->
      [ type |-> legs[k].type,
        from |-> Waypoint(XAfter(legs, k - 1), 0, IF k = 1 THEN e0 ELSE legs[k - 1].elevation),
        to   |-> Waypoint(XAfter(legs, k), 0, legs[k].elevation) ] ]

InputLists == { BuildSegments(e0, legs) : e0 \in Elevations, legs \in LegSeqs }

\* The ramp axis (flag MIN_MAX, or the handler's cached minMax): min is where
\* the ramp is at its floor, max where it is at its elevation.
RampAxes ==
  { Some([ min |-> [x |-> 0, y |-> 0], max |-> [x |-> 12, y |-> 0] ]) }

PlateauBehaviors ==
  [ type : {SetElevation}, disabled : {FALSE}, algorithm : {PLATEAU}, elevation : {10},
    floor : {0}, reset : BOOLEAN, rampStepSize : {0}, minMax : {Undefined} ]

StairsBehaviors ==
  [ type : {SetElevation}, disabled : {FALSE}, algorithm : {STAIRS}, elevation : {30},
    floor : {0, 10}, reset : BOOLEAN, rampStepSize : {0}, minMax : {Undefined} ]

RampBehaviors ==
  [ type : {SetElevation}, disabled : {FALSE}, algorithm : {RAMP}, elevation : {20},
    floor : {0}, reset : BOOLEAN, rampStepSize : {0, 10}, minMax : RampAxes ]

\* A behavior of another type: the three adjusters return at their guard.
NoBehavior ==
  [ type |-> "other", disabled |-> FALSE, algorithm |-> NONE, elevation |-> 0,
    floor |-> 0, reset |-> FALSE, rampStepSize |-> 0, minMax |-> Undefined ]

PlateauHandlers ==
  [ algorithm : {PLATEAU}, plateauElevation : {10}, rampFloor : {0}, rampStepSize : {0},
    minMax : {Undefined} ]

\* The axis of a ramp that descends along the path: the path advances in x.
DownRampAxes ==
  { Some([ min |-> [x |-> 12, y |-> 0], max |-> [x |-> 0, y |-> 0] ]) }

RampHandlers ==
  [ algorithm : {RAMP}, plateauElevation : {20}, rampFloor : {0}, rampStepSize : {0, 10},
    minMax : RampAxes \cup DownRampAxes ]

\* A region that is neither a plateau nor a ramp.
NoHandler ==
  [ algorithm |-> NONE, plateauElevation |-> 0, rampFloor |-> 0, rampStepSize |-> 0,
    minMax |-> Undefined ]

InitWith(start, behaviors, handlers, freefalls, floors) ==
  /\ segments \in InputLists
  /\ input = segments
  /\ shared = {}
  /\ behavior \in behaviors
  /\ handler \in handlers
  /\ freefall \in freefalls
  /\ terrainFloor \in floors
  /\ i = 0
  /\ n = 0
  /\ entered = FALSE
  /\ up = TRUE
  /\ targetElevation = 0
  /\ pc = start
  /\ pass = 1
  /\ firstOut = <<>>
  /\ last = NoStep
  /\ probe = NoProbe
  /\ axis = NoAxis
  /\ canvas = NoCanvas
  /\ elevator = NoElevator

\* modifySegmentsForPlateau alone.
InitPlateau == InitWith("call_plateau", PlateauBehaviors, {NoHandler}, BOOLEAN, {0, 10})
NextPlateau == PlateauCall \/ PlateauEnter \/ PlateauMove \/ PlateauExit \/ PlateauReturn
SpecPlateau == InitPlateau /\ [][NextPlateau]_vars

\* modifySegmentsForStairs alone.
InitStairs == InitWith("call_stairs", StairsBehaviors, {NoHandler}, {FALSE}, {0})
NextStairs == StairsCall \/ StairsEnter \/ StairsMove \/ StairsExit \/ StairsReturn
SpecStairs == InitStairs /\ [][NextStairs]_vars

\* RegionElevationHandler._modifySegments alone.
InitHandler ==
  InitWith("call_handler", {NoBehavior}, PlateauHandlers \cup RampHandlers, {FALSE}, {0})
NextHandler == HandlerCall \/ HandlerEnter \/ HandlerMove \/ HandlerExit \/ HandlerReturn
SpecHandler == InitHandler /\ [][NextHandler]_vars

\* segmentizeMovement for one behavior, or _modifySegments for one region, and
\* the same once more on the list returned.
Init ==
  \/ InitWith("call_plateau", PlateauBehaviors \cup StairsBehaviors \cup RampBehaviors,
              {NoHandler}, BOOLEAN, {0})
  \/ InitWith("call_handler", {NoBehavior}, PlateauHandlers \cup RampHandlers, {FALSE}, {0})

Next ==
  \/ PlateauCall \/ PlateauEnter \/ PlateauMove \/ PlateauExit \/ PlateauReturn
  \/ StairsCall \/ StairsEnter \/ StairsMove \/ StairsExit \/ StairsReturn
  \/ RampCall \/ RampEnter \/ RampMove \/ RampExit \/ RampReturn
  \/ HandlerCall \/ HandlerEnter \/ HandlerMove \/ HandlerExit \/ HandlerReturn
  \/ AdjustAgain

Spec == Init /\ [][Next]_vars


\* elevationUponEntry of a ramp region, asked at locations on and around the
\* ramp axis.
ProbeHandlers ==
  [ algorithm : {RAMP}, plateauElevation : {20, 25}, rampFloor : {0, 10},
    rampStepSize : {0, 5, 15},
    minMax : RampAxes \cup { Some([ min |-> [x |-> 12, y |-> 3], max |-> [x |-> 0, y |-> 3] ]) } ]

ProbeLocations == { Waypoint(x, y, 0) : x \in {-3, 0, 3, 6, 9, 12, 15}, y \in {0, 5} }

InitElevation ==
  /\ segments = <<>>
  /\ input = <<>>
  /\ shared = {}
  /\ behavior = NoBehavior
  /\ handler \in ProbeHandlers
  /\ freefall = FALSE
  /\ terrainFloor = 0
  /\ i = 0
  /\ n = 0
  /\ entered = FALSE
  /\ up = TRUE
  /\ targetElevation = 0
  /\ pc = "probe"
  /\ pass = 1
  /\ firstOut = <<>>
  /\ last = NoStep
  /\ probe = NoProbe
  /\ axis = NoAxis
  /\ canvas = NoCanvas
  /\ elevator = NoElevator

NextElevation == \E location \in ProbeLocations : Probe(location)
SpecElevation == InitElevation /\ [][NextElevation]_vars

\* The model keeps x and y integral.  In the first run every intersection the
\* adjusters compute falls on integral x, y, so nothing is lost there; the
\* second run of a ramp can meet intersections that do not.
FirstRunIntersectionsExact ==
  ( /\ pass = 1
    /\ i < n
    /\ segments[i + 1].type = MOVE
    /\ ~entered
    /\ ~regionWaypointsXYEqual(segments[i + 1].from, segments[i + 1].to)
    /\ \/ /\ pc = "ramp"
          /\ segments[i + 1].from.elevation # plateauElevation(segments[i + 1].from)
          /\ freefall \/ segments[i + 1].from.elevation = segments[i + 1].to.elevation
       \/ /\ pc = "handler"
          /\ handler.algorithm = RAMP
          /\ segments[i + 1].from.elevation > elevationUponEntry(handler, segments[i + 1].from)
          /\ segments[i + 1].to.elevation < elevationUponEntry(handler, segments[i + 1].from) )
  => ExactIntersection(IF pc = "ramp" THEN BehaviorRule ELSE handler,
                       segments[i + 1].from, segments[i + 1].to)

-----------------------------------------------------------------------------
(* Properties                                                               *)

\* The segment the last iteration scanned, as it was before the iteration,
\* its place in the list (from 1), and the segments the iteration added.
Scanned == last.before[last.i + 1]
ScannedAt == last.i + 1
Added == Len(segments) - Len(last.before)

\* The list after the iteration is the list before it with `items` in the
\* place of the first `removed` segments from place `at` on.
Replaced(at, removed, items) == segments = Splice(last.before, at - 1, removed, items)

\* The last iteration was case `type` of the plateau adjustment, of Region.js
\* or of the handler of a plateau region.
PlateauCase(type) ==
  /\ last.type = type
  /\ \/ last.fn = "plateau"
     \/ last.fn = "handler" /\ handler.algorithm = PLATEAU

PlateauLevel == IF last.fn = "handler" THEN handler.plateauElevation ELSE behavior.elevation

EnteredAtFloorBelow ==
  /\ terrainFloor < PlateauLevel
  /\ \E j \in 1..(ScannedAt - 1) :
       /\ last.before[j].type = ENTER
       /\ last.before[j].to.elevation = terrainFloor
       /\ \A k \in (j + 1)..(ScannedAt - 1) : last.before[k].type = MOVE

\* C2: with reset and without freefall, the EXIT of a token that entered at
\* the scene floor below the plateau returns it to the scene floor by
\* synthetic MOVE segments: one if the segment before the EXIT ends at the
\* floor, two otherwise.
C2_ExitReturnsToFloorByOneOrTwoMoves ==
  ( /\ last.fn = "plateau"
    /\ last.type = EXIT
    /\ behavior.reset
    /\ ~freefall
    /\ last.entered
    /\ EnteredAtFloorBelow )
  => /\ Added = IF last.before[ScannedAt - 1].to.elevation = terrainFloor THEN 1 ELSE 2
     /\ segments[ScannedAt + Added].to.elevation = terrainFloor

\* C3: with reset false, the EXIT case of the plateau, stairs and ramp
\* adjusters leaves the list as it is (no segment added, no elevation
\* changed), whatever freefall and entered are, and entered is false after it.
C3_ExitWithoutResetChangesNothing ==
  ( /\ last.type = EXIT
    /\ last.fn \in {"plateau", "stairs", "ramp"}
    /\ ~behavior.reset )
  => /\ segments = last.before
     /\ entered = FALSE

C3_Witness ==
  /\ last.type = EXIT
  /\ last.fn = "ramp"
  /\ ~behavior.reset
  /\ freefall
  /\ last.entered
  /\ Scanned.from.elevation # terrainFloor
  /\ ScannedAt > 1

\* C4: with freefall, a MOVE scanned while not entered that goes straight down
\* from above the plateau elevation to below it becomes two MOVE segments,
\* from -> ix and ix -> to, ix being the segment's x, y at the plateau
\* elevation; the list is one longer.
C4_FreefallSplitsAtPlateau ==
  ( /\ last.fn = "plateau"
    /\ last.type = MOVE
    /\ freefall
    /\ ~last.entered
    /\ regionWaypointsXYEqual(Scanned.from, Scanned.to)
    /\ Scanned.from.elevation > behavior.elevation
    /\ Scanned.to.elevation < behavior.elevation )
  => /\ Added = 1
     /\ Replaced(ScannedAt, 1,
                 << [ type |-> MOVE, from |-> Scanned.from,
                      to |-> Waypoint(Scanned.from.x, Scanned.from.y, behavior.elevation) ],
                    [ type |-> MOVE,
                      from |-> Waypoint(Scanned.from.x, Scanned.from.y, behavior.elevation),
                      to |-> Scanned.to ] >>)

C4_Witness ==
  /\ last.fn = "plateau"
  /\ last.type = MOVE
  /\ freefall
  /\ ~last.entered
  /\ regionWaypointsXYEqual(Scanned.from, Scanned.to)
  /\ Scanned.from.elevation > behavior.elevation
  /\ Scanned.to.elevation < behavior.elevation
  /\ Len(segments) = Len(last.before) + 1
  /\ segments[ScannedAt].to.elevation = behavior.elevation

\* C10: a MOVE the plateau adjuster scans while entered has, after the
\* iteration, both elevations at least the plateau elevation and neither lower
\* than before: each is the larger of the plateau elevation and what it was.
C10_EnteredMoveNeverBelowPlateau ==
  ( /\ last.fn = "plateau"
    /\ last.type = MOVE
    /\ last.entered )
  => /\ Added = 0
     /\ segments[ScannedAt].from.elevation >= behavior.elevation
     /\ segments[ScannedAt].to.elevation >= behavior.elevation
     /\ segments[ScannedAt].from.elevation >= Scanned.from.elevation
     /\ segments[ScannedAt].to.elevation >= Scanned.to.elevation
     /\ segments[ScannedAt].from.elevation \in {behavior.elevation, Scanned.from.elevation}
     /\ segments[ScannedAt].to.elevation \in {behavior.elevation, Scanned.to.elevation}

C10_Witness ==
  /\ last.fn = "plateau"
  /\ last.type = MOVE
  /\ last.entered
  /\ Scanned.from.elevation < behavior.elevation
  /\ Scanned.to.elevation > behavior.elevation
  /\ segments[ScannedAt].from.elevation = behavior.elevation
  /\ segments[ScannedAt].to.elevation = Scanned.to.elevation


\* The last iteration was case `type` of modifySegmentsForStairs.
StairsCase(type) == last.fn = "stairs" /\ last.type = type

\* round((top - floor) / 2), halves rounded up.
StairsMidpoint == (behavior.elevation - behavior.floor + 1) \div 2

C7_StairsHalfwayBetweenFloorAndTop ==
  StairsCase(ENTER) =>
    targetElevation = IF 2 * Scanned.from.elevation <= behavior.floor + behavior.elevation
                        THEN behavior.elevation ELSE behavior.floor


\* The position of a location along the axis min -> max of the ramp, in [0, 1],
\* as a fraction; all locations of one ramp have the same denominator.
RampPosition(location) == RampT0(location, handler.minMax[1])

C9_SteppedRampReturnsStepElevations ==
  \A k \in 1..Len(probe) :
    handler.rampStepSize # 0 =>
      /\ (probe[k].elevation - handler.rampFloor) % handler.rampStepSize = 0
      /\ probe[k].elevation >= handler.rampFloor
      /\ probe[k].elevation <= handler.plateauElevation


\* C5 as stated: whatever the behavior, freefall and the input, the second
\* run of the adjustment on the list the first run returned adds no segment
\* and changes no elevation.
C5_SecondRunChangesNothing == pass = 2 => segments = firstOut

\* C5: for a stairs behavior without reset, the second run of the adjustment
\* on the list the first run returned adds no segment and changes no
\* elevation, whatever the input and freefall.
C5_StairsWithoutResetIsFixedPoint ==
  (pass = 2 /\ behavior.algorithm = STAIRS /\ ~behavior.reset) => segments = firstOut

C5_Witness ==
  /\ pass = 2
  /\ pc = "done"
  /\ behavior.algorithm = STAIRS
  /\ ~behavior.reset
  /\ last.fn = "stairs"
  /\ Len(firstOut) = 3
  /\ firstOut # input
  /\ segments = firstOut


\* C11: a MOVE that _modifySegments scans while entered has, after the
\* iteration, its from elevation at least the elevation of the plateau or ramp
\* at its from location and its to elevation at least that at its to location.
C11_HandlerMoveAtLeastRuleAtEachEnd ==
  ( /\ last.fn = "handler"
    /\ last.type = MOVE
    /\ last.entered
    /\ pc # "threw" )
  => /\ segments[ScannedAt].from.elevation
          >= elevationUponEntry(handler, segments[ScannedAt].from)
     /\ segments[ScannedAt].to.elevation
          >= elevationUponEntry(handler, segments[ScannedAt].to)


-----------------------------------------------------------------------------
\* The axis of a ramp: minMaxPolygonPointsAlongAxis, minMaxRegionPointsAlongAxis.
\*
\* Coordinates are numbers (a + b * sqrt 2) / 2 with integers a and b, which is
\* exact for whole coordinates turned by multiples of 45 degrees.  Angles are
\* kept in degrees: Math.toRadians is followed by Math.cos and Math.sin only.

Num(a, b) == [a |-> a, b |-> b]
Whole(x) == Num(2 * x, 0)
NumAdd(p, q) == Num(p.a + q.a, p.b + q.b)
NumSub(p, q) == Num(p.a - q.a, p.b - q.b)
NumMul(p, q) == Num((p.a * q.a + 2 * p.b * q.b) \div 2, (p.a * q.b + p.b * q.a) \div 2)

\* -1, 0 or 1: the sign of (a + b * sqrt 2).
NumSign(p) ==
  CASE p.a = 0 /\ p.b = 0 -> 0
    [] p.a >= 0 /\ p.b >= 0 -> 1
    [] p.a <= 0 /\ p.b <= 0 -> -1
    [] p.a > 0 /\ p.b < 0 -> IF p.a * p.a > 2 * p.b * p.b THEN 1 ELSE -1
    [] OTHER -> IF 2 * p.b * p.b > p.a * p.a THEN 1 ELSE -1

NumLess(p, q) == NumSign(NumSub(p, q)) < 0
NumMinimum(S) == CHOOSE p \in S : \A q \in S : ~NumLess(q, p)
NumMaximum(S) == CHOOSE p \in S : \A q \in S : ~NumLess(p, q)

\* The operator % of the language: the sign of the result is the dividend's.
Remainder(a, b) == IF a >= 0 THEN a % b ELSE -((-a) % b)

\* Math.cos and Math.sin of an angle that is a multiple of 45 degrees.
MathCos(degrees) ==
  CASE degrees % 360 = 0 -> Num(2, 0)
    [] degrees % 360 \in {45, 315} -> Num(0, 1)
    [] degrees % 360 \in {90, 270} -> Num(0, 0)
    [] degrees % 360 \in {135, 225} -> Num(0, -1)
    [] OTHER -> Num(-2, 0)
MathSin(degrees) == MathCos(degrees - 90)

Point(x, y) == [x |-> x, y |-> y]
Polygon(points, isPositive) == [points |-> points, isPositive |-> isPositive]

\* PIXI.Polygon.getBounds and Rectangle.center.
getBounds(points) ==
  LET xs == { points[k].x : k \in 1..Len(points) }
      ys == { points[k].y : k \in 1..Len(points) }
  IN  [ left |-> NumMinimum(xs), right |-> NumMaximum(xs),
        top |-> NumMinimum(ys), bottom |-> NumMaximum(ys) ]
Half(p) == Num(p.a \div 2, p.b \div 2)
center(bounds) ==
  Point(Half(NumAdd(bounds.left, bounds.right)), Half(NumAdd(bounds.top, bounds.bottom)))

\* Matrix.rotationZ applied to one point taken about the origin.
rotationZ(rotation, p) ==
  Point(NumSub(NumMul(p.x, MathCos(rotation)), NumMul(p.y, MathSin(rotation))),
        NumAdd(NumMul(p.x, MathSin(rotation)), NumMul(p.y, MathCos(rotation))))

\* rotatePolygon: translate to 0,0, rotate, translate back based on centroid.
rotatePolygon(points, rotation, centroid) ==
  IF rotation = 0 THEN points
  ELSE [ k \in 1..Len(points) |->
           LET moved == Point(NumSub(points[k].x, centroid.x), NumSub(points[k].y, centroid.y))
               turned == rotationZ(rotation, moved)
           IN  Point(NumAdd(turned.x, centroid.x), NumAdd(turned.y, centroid.y)) ]

\* minMaxPolygonPointsAlongAxis.  No branch of the switch returns for a
\* direction that is a multiple of 90 other than 0, 90, 180 and 270: the
\* function ends and its value is undefined.
minMaxPolygonPointsAlongAxis(points, direction, centroid) ==
  IF Remainder(direction, 90) # 0
  THEN LET rotatedPoly == rotatePolygon(points, 360 - direction, centroid)
           bounds == getBounds(rotatedPoly)
           minMaxRotatedPoly == << Point(centroid.x, bounds.top), Point(centroid.x, bounds.bottom) >>
           minMaxPoly == rotatePolygon(minMaxRotatedPoly, -(360 - direction), centroid)
       IN  Some([ min |-> minMaxPoly[1], max |-> minMaxPoly[2] ])
  ELSE LET bounds == getBounds(points)
       IN  CASE direction = 0 ->
                  Some([ min |-> Point(centroid.x, bounds.top), max |-> Point(centroid.x, bounds.bottom) ])
             [] direction = 90 ->
                  Some([ min |-> Point(bounds.right, centroid.y), max |-> Point(bounds.left, centroid.y) ])
             [] direction = 180 ->
                  Some([ min |-> Point(centroid.x, bounds.bottom), max |-> Point(centroid.x, bounds.top) ])
             [] direction = 270 ->
                  Some([ min |-> Point(bounds.left, centroid.y), max |-> Point(bounds.right, centroid.y) ])
             [] OTHER -> Undefined

\* PIXI.Point.distanceSquaredBetween, in quarters: 4 * (dx^2 + dy^2) as the
\* number a + b * sqrt 2.
Square4(p) == Num(p.a * p.a + 2 * p.b * p.b, 2 * p.a * p.b)
distanceSquaredBetween(p, q) ==
  NumAdd(Square4(NumSub(p.x, q.x)), Square4(NumSub(p.y, q.y)))

\* region.polygons.filter(poly => poly._isPositive)
PositivePolygons(polygons) == SelectSeq(polygons, LAMBDA poly : poly.isPositive)

\* region.bounds: the bounding box of the shapes of the region.
RECURSIVE AllPoints(_)
AllPoints(polygons) ==
  IF polygons = << >> THEN << >> ELSE Head(polygons).points \o AllPoints(Tail(polygons))
regionBounds(polygons) == getBounds(AllPoints(PositivePolygons(polygons)))

\* minMax after the first polygon: each point with its _dist2.
AxisFirst(res, centre) ==
  [ min |-> res.min, minDist2 |-> distanceSquaredBetween(res.min, centre),
    max |-> res.max, maxDist2 |-> distanceSquaredBetween(res.max, centre) ]

\* One iteration of the loop of minMaxRegionPointsAlongAxis.  The _dist2
\* written to res.min and res.max is measured from minMax.min and minMax.max.
AxisLoopBody(minMax, res, centre) ==
  LET resMinDist2 == distanceSquaredBetween(minMax.min, centre)
      resMaxDist2 == distanceSquaredBetween(minMax.max, centre)
      replaceMin == NumLess(minMax.minDist2, resMinDist2)
      replaceMax == NumLess(minMax.maxDist2, resMaxDist2)
  IN  [ min |-> IF replaceMin THEN res.min ELSE minMax.min,
        minDist2 |-> IF replaceMin THEN resMinDist2 ELSE minMax.minDist2,
        max |-> IF replaceMax THEN res.max ELSE minMax.max,
        maxDist2 |-> IF replaceMax THEN resMaxDist2 ELSE minMax.maxDist2 ]

RECURSIVE AxisLoop(_, _, _, _, _)
AxisLoop(polys, direction, centre, k, minMax) ==
  IF k > Len(polys)
  THEN [ threw |-> FALSE, value |-> Some([ min |-> minMax.min, max |-> minMax.max ]) ]
  ELSE LET res == minMaxPolygonPointsAlongAxis(polys[k].points, direction, centre)
       IN  IF res = Undefined THEN [ threw |-> TRUE, value |-> Undefined ]
           ELSE AxisLoop(polys, direction, centre, k + 1, AxisLoopBody(minMax, res[1], centre))

\* minMaxRegionPointsAlongAxis, the same in Region.js and in the handler.  A
\* write to a property of the undefined value of minMaxPolygonPointsAlongAxis
\* throws a TypeError.
minMaxRegionPointsAlongAxis(polygons, direction) ==
  LET polys == PositivePolygons(polygons)
      centre == center(regionBounds(polygons))
  IN  IF Len(polys) = 0 THEN [ threw |-> FALSE, value |-> Undefined ]
      ELSE LET first == minMaxPolygonPointsAlongAxis(polys[1].points, direction, centre)
           IN  IF first = Undefined THEN [ threw |-> TRUE, value |-> Undefined ]
               ELSE AxisLoop(polys, direction, centre, 2, AxisFirst(first[1], centre))

\* Regions: up to MaxPolygons of these shapes, in any order.  Coordinates are
\* even, so every centre is whole and the arithmetic above is exact.
MaxPolygons == 3

Rectangle(left, top, right, bottom) ==
  << Point(Whole(left), Whole(top)), Point(Whole(right), Whole(top)),
     Point(Whole(right), Whole(bottom)), Point(Whole(left), Whole(bottom)) >>

Shapes ==
  { Polygon(Rectangle(0, 0, 4, 4), TRUE),
    Polygon(Rectangle(6, 0, 12, 2), TRUE),
    Polygon(<< Point(Whole(0), Whole(6)), Point(Whole(8), Whole(6)), Point(Whole(0), Whole(12)) >>,
            TRUE),
    Polygon(Rectangle(2, -4, 6, 0), TRUE),
    Polygon(Rectangle(2, 2, 4, 4), FALSE) }

Regions ==
  { polygons \in UNION { [1..len -> Shapes] : len \in 1..MaxPolygons } :
      \A j, k \in 1..Len(polygons) : polygons[j] = polygons[k] => j = k }

\* Whole degrees, multiples of 45, within and outside 0..359.
Directions == { 45 * k : k \in -8..16 }
Turns == {-1, 1, 2}

NoMinMax == [ threw |-> FALSE, value |-> Undefined ]

InitAxis ==
  /\ segments = <<>>
  /\ input = <<>>
  /\ shared = {}
  /\ behavior = NoBehavior
  /\ handler = NoHandler
  /\ freefall = FALSE
  /\ terrainFloor = 0
  /\ i = 0
  /\ n = 0
  /\ entered = FALSE
  /\ up = TRUE
  /\ targetElevation = 0
  /\ pc = "axis"
  /\ pass = 1
  /\ firstOut = <<>>
  /\ last = NoStep
  /\ probe = NoProbe
  /\ axis \in [ polygons : Regions, direction : Directions, called : {"none"},
                minMax : {NoMinMax} ]
  /\ canvas = NoCanvas
  /\ elevator = NoElevator

\* minMaxPolygonPointsAlongAxis is called for the first positive polygon, as
\* minMaxRegionPointsAlongAxis calls it: with the centre of the region's bounds.
AxisOfPolygon ==
  /\ pc = "axis"
  /\ axis.called = "none"
  /\ PositivePolygons(axis.polygons) # << >>
  /\ axis' = [ axis EXCEPT
       !.called = "polygon",
       !.minMax = [ threw |-> FALSE,
                    value |-> minMaxPolygonPointsAlongAxis(
                                PositivePolygons(axis.polygons)[1].points, axis.direction,
                                center(regionBounds(axis.polygons))) ] ]
  /\ UNCHANGED <<adjusterVars, canvas, elevator>>

\* minMaxRegionPointsAlongAxis is called for the region.
AxisOfRegion ==
  /\ pc = "axis"
  /\ axis.called = "none"
  /\ axis' = [ axis EXCEPT !.called = "region",
                           !.minMax = minMaxRegionPointsAlongAxis(axis.polygons, axis.direction) ]
  /\ UNCHANGED <<adjusterVars, canvas, elevator>>

NextAxis == AxisOfPolygon \/ AxisOfRegion
SpecAxis == InitAxis /\ [][NextAxis]_vars

\* The candidate points of the positive polygons of the region of `axis`.
AxisCentre == center(regionBounds(axis.polygons))
AxisCandidate(k) ==
  minMaxPolygonPointsAlongAxis(PositivePolygons(axis.polygons)[k].points, axis.direction,
                               AxisCentre)
\* Candidate k is the one kept: none is farther from the centre, and none
\* before it is as far.
Farthest(k, end) ==
  LET nPolys == Len(PositivePolygons(axis.polygons))
      dist2(j) == distanceSquaredBetween(AxisCandidate(j)[1][end], AxisCentre)
  IN  /\ \A j \in 1..nPolys : ~NumLess(dist2(k), dist2(j))
      /\ \A j \in 1..(k - 1) : NumLess(dist2(j), dist2(k))

\* C12: for a region with several positive polygons, minMaxRegionPointsAlongAxis
\* returns as min, and independently as max, the candidate of the polygon whose
\* candidate is farthest from the centre of the region's bounds (a later
\* candidate replaces the current one only when strictly farther); holes give
\* no candidate.
C12_RegionAxisKeepsFarthestCandidates ==
  ( /\ axis # NoAxis
    /\ axis.called = "region"
    /\ ~axis.minMax.threw
    /\ Len(PositivePolygons(axis.polygons)) > 1 )
  => \A k \in 1..Len(PositivePolygons(axis.polygons)) :
       /\ Farthest(k, "min") => axis.minMax.value[1].min = AxisCandidate(k)[1].min
       /\ Farthest(k, "max") => axis.minMax.value[1].max = AxisCandidate(k)[1].max

\* C13: for a polygon and a whole-degree direction d, the direction d + 360 k
\* gives the same min and max as d, for minMaxPolygonPointsAlongAxis and for
\* minMaxRegionPointsAlongAxis, multiples of 90 included.
C13_AxisPeriodicInDirection ==
  /\ ( axis # NoAxis /\ axis.called = "polygon" )
     => \A k \in Turns :
          minMaxPolygonPointsAlongAxis(PositivePolygons(axis.polygons)[1].points,
                                       axis.direction + 360 * k, AxisCentre)
            = axis.minMax.value
  /\ ( axis # NoAxis /\ axis.called = "region" )
     => \A k \in Turns :
          minMaxRegionPointsAlongAxis(axis.polygons, axis.direction + 360 * k) = axis.minMax

-----------------------------------------------------------------------------
\* The hooks of Region.js that keep the MIN_MAX flag of the setElevation
\* behaviors of a region, and the #minMax cache of the region's handler.

MaxBehaviors == 2

CanvasRegions ==
  { << Polygon(Rectangle(0, 0, 4, 4), TRUE) >>,
    << Polygon(Rectangle(6, 0, 12, 2), TRUE), Polygon(Rectangle(2, -4, 6, 0), TRUE) >> }
HookDirections == {0, 45}
HookAlgorithms == {PLATEAU, RAMP}

\* A behavior document as created: no flag yet.
NewBehavior(type, algorithm, rampDirection) ==
  [ type |-> type, algorithm |-> algorithm, rampDirection |-> rampDirection,
    minMax |-> Undefined ]

NewBehaviors ==
  { NewBehavior(SetElevation, algorithm, direction) :
      algorithm \in HookAlgorithms, direction \in HookDirections }
  \cup { NewBehavior("other", PLATEAU, 0) }

NoRead == [ read |-> FALSE, value |-> Undefined, polygons |-> << >>, direction |-> 0 ]

InitHooks ==
  /\ segments = <<>>
  /\ input = <<>>
  /\ shared = {}
  /\ behavior = NoBehavior
  /\ handler = NoHandler
  /\ freefall = FALSE
  /\ terrainFloor = 0
  /\ i = 0
  /\ n = 0
  /\ entered = FALSE
  /\ up = TRUE
  /\ targetElevation = 0
  /\ pc = "hooks"
  /\ pass = 1
  /\ firstOut = <<>>
  /\ last = NoStep
  /\ probe = NoProbe
  /\ axis = NoAxis
  /\ canvas \in [ polygons : CanvasRegions,
                  behaviors : { << >> },
                  rampDirection : HookDirections,
                  cache : { Undefined },
                  got : { NoRead } ]
  /\ elevator = NoElevator

\* The value a hook gets from minMaxRegionPointsAlongAxis(region, direction).
HookMinMax(polygons, direction) == minMaxRegionPointsAlongAxis(polygons, direction).value

\* canvasReady: every setElevation behavior without a flag gets one.
canvasReady ==
  /\ pc = "hooks"
  /\ canvas' = [ canvas EXCEPT !.behaviors =
       [ k \in 1..Len(canvas.behaviors) |->
           LET b == canvas.behaviors[k]
           IN  IF b.type # SetElevation THEN b
               ELSE IF b.minMax # Undefined THEN b
               ELSE [ b EXCEPT !.minMax = HookMinMax(canvas.polygons, b.rampDirection) ] ] ]
  /\ UNCHANGED <<adjusterVars, axis, elevator>>

\* The shapes of the region are replaced and the hook updateRegion runs with
\* changed.shapes: every setElevation behavior with algorithm RAMP gets a new flag.
updateRegion(shapes) ==
  /\ pc = "hooks"
  /\ shapes # canvas.polygons
  /\ canvas' = [ canvas EXCEPT
       !.polygons = shapes,
       !.behaviors =
         [ k \in 1..Len(canvas.behaviors) |->
             LET b == canvas.behaviors[k]
             IN  IF b.type # SetElevation THEN b
                 ELSE IF b.algorithm # RAMP THEN b
                 ELSE [ b EXCEPT !.minMax = HookMinMax(shapes, b.rampDirection) ] ] ]
  /\ UNCHANGED <<adjusterVars, axis, elevator>>

\* The differences an update of a behavior can carry: no system data, or
\* system data with or without algorithm and rampDirection.
Changes ==
  { c \in [ system : BOOLEAN,
            algorithm : {Undefined} \cup { Some(a) : a \in HookAlgorithms },
            rampDirection : {Undefined} \cup { Some(d) : d \in HookDirections } ] :
      ~c.system => (c.algorithm = Undefined /\ c.rampDirection = Undefined) }

\* preUpdateRegionBehavior: TRUE when the hook reaches its last two lines and
\* puts a new flag into changed.
preUpdateSetsFlag(b, changed) ==
  /\ b.type = SetElevation
  /\ changed.system
  /\ changed.algorithm # Undefined \/ changed.rampDirection # Undefined
  /\ (IF changed.algorithm # Undefined THEN changed.algorithm[1] ELSE b.algorithm) = RAMP

\* A behavior is updated: preUpdateRegionBehavior runs on the differences,
\* then the document takes them.
preUpdateRegionBehavior(k, changed) ==
  /\ pc = "hooks"
  /\ k \in 1..Len(canvas.behaviors)
  /\ LET b == canvas.behaviors[k]
         direction == IF changed.rampDirection # Undefined THEN changed.rampDirection[1]
                      ELSE b.rampDirection
     IN  canvas' = [ canvas EXCEPT !.behaviors[k] =
           [ type |-> b.type,
             algorithm |-> IF changed.algorithm # Undefined THEN changed.algorithm[1]
                           ELSE b.algorithm,
             rampDirection |-> direction,
             minMax |-> IF preUpdateSetsFlag(b, changed)
                        THEN HookMinMax(canvas.polygons, direction)
                        ELSE b.minMax ] ]
  /\ UNCHANGED <<adjusterVars, axis, elevator>>

\* A behavior is added to the region.  No hook of Region.js runs for it.
createBehavior(b) ==
  /\ pc = "hooks"
  /\ Len(canvas.behaviors) < MaxBehaviors
  /\ canvas' = [ canvas EXCEPT !.behaviors = Append(canvas.behaviors, b) ]
  /\ UNCHANGED <<adjusterVars, axis, elevator>>

\* get minMax of the handler: #minMax, or computed and kept in #minMax.
getMinMax ==
  /\ pc = "hooks"
  /\ LET value == IF canvas.cache # Undefined THEN canvas.cache
                  ELSE HookMinMax(canvas.polygons, canvas.rampDirection)
     IN  canvas' = [ canvas EXCEPT
           !.cache = value,
           !.got = [ read |-> TRUE, value |-> value, polygons |-> canvas.polygons,
                     direction |-> canvas.rampDirection ] ]
  /\ UNCHANGED <<adjusterVars, axis, elevator>>

NextHooks ==
  \/ canvasReady
  \/ \E shapes \in CanvasRegions : updateRegion(shapes)
  \/ \E k \in 1..MaxBehaviors, changed \in Changes : preUpdateRegionBehavior(k, changed)
  \/ \E b \in NewBehaviors : createBehavior(b)
  \/ getMinMax
SpecHooks == InitHooks /\ [][NextHooks]_vars

\* C14: after any sequence of canvasReady, shape updates, behavior updates and
\* behavior creations, the axis read for a ramp is the axis of the region's
\* current shape and the current direction: the MIN_MAX flag a setElevation
\* behavior with algorithm RAMP carries, and the value the handler's getter
\* minMax returned at the time it was read, are never those of an earlier shape
\* or direction.
C14_RampAxisIsOfCurrentShapeAndDirection ==
  canvas # NoCanvas =>
    /\ \A k \in 1..Len(canvas.behaviors) :
         LET b == canvas.behaviors[k]
         IN  ( b.type = SetElevation /\ b.algorithm = RAMP /\ b.minMax # Undefined )
             => b.minMax = HookMinMax(canvas.polygons, b.rampDirection)
    /\ canvas.got.read
         => canvas.got.value = HookMinMax(canvas.got.polygons, canvas.got.direction)

\* C15: right after _modifySegments has processed an EXIT, the segment that
\* follows the EXIT in the list (the EXIT taken at its place after a vertical
\* move was put before it), if there is one, is the segment that followed it
\* before, with from.elevation set to the scene floor; the EXIT and the
\* inserted move are not the ones written to.
C15_SegmentAfterExitStartsAtFloor ==
  ( /\ last.fn = "handler"
    /\ last.type = EXIT
    /\ ScannedAt + Added < Len(segments) )
  => /\ segments[ScannedAt + Added].type = EXIT
     /\ segments[ScannedAt + Added].from.elevation = terrainFloor
     /\ segments[ScannedAt + Added + 1]
          = [ last.before[ScannedAt + 1] EXCEPT !.from.elevation = terrainFloor ]
     /\ Added = 1 => /\ segments[ScannedAt].type = MOVE
                     /\ segments[ScannedAt].to.elevation = terrainFloor

C15_Witness ==
  /\ last.fn = "handler"
  /\ last.type = EXIT
  /\ Added = 1
  /\ ScannedAt + Added < Len(segments)
  /\ last.before[ScannedAt + 1].from.elevation # terrainFloor
  /\ segments[ScannedAt + Added + 1].from.elevation = terrainFloor

\* C16: with freefall, after modifySegmentsForPlateau has split a not-entered
\* MOVE at the plateau (the two halves share the object ix), the second half
\* and every later MOVE up to the next EXIT have both elevations at least the
\* plateau elevation in the list returned: the token stops at the plateau.
C16_AfterFreefallSplitMovesStayOnPlateau ==
  ( /\ pc = "call_stairs"
    /\ pass = 1
    /\ freefall )
  => \A k \in shared :
       \A j \in (k + 2)..Len(segments) :
         ( \A m \in (k + 2)..j : segments[m].type = MOVE )
         => /\ segments[j].from.elevation >= behavior.elevation
            /\ segments[j].to.elevation >= behavior.elevation

-----------------------------------------------------------------------------
\* ElevatorRegionBehaviorType: the handlers of the region events of an
\* elevator region, for the moves of two tokens.

Tokens == {"a", "b"}

\* this.floors as getStopsAndElevations reads it: the elevations of the stops.
ElevatorFloors == {10, 20}
getStopsAndElevations == [ elevations |-> ElevatorFloors ]

\* ElevationHandler.sceneFloor
groundElevation == 0

\* A waypoint of a token's move, named by where it is.
Place(token, at) == [ token |-> token, at |-> at ]

\* event.data.segments of a move: the types, each segment with its `to`.
MoveShapes == { << ENTER >>, << MOVE >>, << MOVE, EXIT >>, << ENTER, MOVE, EXIT >> }

\* What DialogV2.wait resolves to: null when the dialog is closed, else the
\* value of form.elements.choice, a number once through Number(): the elevation
\* of the radio button that is checked, or 0 for the empty string when none is.
Closed == Undefined
Answers(tokenElevation) ==
  {Closed} \cup { Some(e) : e \in ElevatorFloors }
  \cup (IF tokenElevation \in ElevatorFloors THEN {} ELSE { Some(0) })

\* What DialogV2.confirm resolves to: true, false, or null when closed.
Confirms == {"yes", "no", "closed"}

\* The move of one token through the region, as the handlers see it.
NewMove(token, elevation, forced, shape, user) ==
  [ elevation   |-> elevation,       \* tokenD.elevation
    forced      |-> forced,          \* event.data.forced
    shape       |-> shape,           \* types of event.data.segments
    user        |-> user,            \* event.user is game.user, or another user
    destination |-> Place(token, "destination"),   \* event.data.destination
    phase       |-> "requested",
    event       |-> "none",          \* the event a handler has taken up: "in" or "out"
    remembered  |-> Undefined,       \* what #onTokenPreMove wrote to lastDestination
    prompted    |-> FALSE,           \* a dialog was shown
    answer      |-> Undefined,       \* what the dialog resolved to
    override    |-> Undefined,       \* third argument of continueTokenAnimationForBehavior
    seen        |-> Undefined ]      \* lastDestination when the movement was continued

InitElevator ==
  /\ segments = <<>>
  /\ input = <<>>
  /\ shared = {}
  /\ behavior = NoBehavior
  /\ handler = NoHandler
  /\ freefall = FALSE
  /\ terrainFloor = 0
  /\ i = 0
  /\ n = 0
  /\ entered = FALSE
  /\ up = TRUE
  /\ targetElevation = 0
  /\ pc = "elevator"
  /\ pass = 1
  /\ firstOut = <<>>
  /\ last = NoStep
  /\ probe = NoProbe
  /\ axis = NoAxis
  /\ canvas = NoCanvas
  /\ \E strict \in BOOLEAN, resetOnExit \in BOOLEAN, elevation \in {0, 5, 10},
        forced \in BOOLEAN, shapeA \in MoveShapes, shapeB \in MoveShapes,
        user \in {"self", "other"} :
       elevator = [ strict |-> strict,
                    resetOnExit |-> resetOnExit,
                    lastDestination |-> Undefined,
                    moves |-> [ t \in Tokens |->
                      IF t = "a" THEN NewMove(t, elevation, forced, shapeA, user)
                      ELSE NewMove(t, 10, FALSE, shapeB, "self") ] ]

HasSegment(shape, type) == \E k \in 1..Len(shape) : shape[k] = type

\* #onTokenPreMove: the two loops, each over the first segment of its type.
onTokenPreMoveEnter(e, t) ==
  IF HasSegment(e.moves[t].shape, ENTER)
  THEN [ e EXCEPT !.lastDestination = Some(e.moves[t].destination),
                  !.moves[t].remembered = Some(e.moves[t].destination),
                  !.moves[t].destination = Place(t, ENTER) ]
  ELSE e
onTokenPreMoveExit(e, t) ==
  IF e.resetOnExit /\ HasSegment(e.moves[t].shape, EXIT)
  THEN [ e EXCEPT !.lastDestination = Some(e.moves[t].destination),
                  !.moves[t].remembered = Some(e.moves[t].destination),
                  !.moves[t].destination = Place(t, EXIT) ]
  ELSE e

onTokenPreMove(t) ==
  /\ pc = "elevator"
  /\ elevator.moves[t].phase = "requested"
  /\ elevator' =
       [ (IF elevator.moves[t].forced THEN elevator
          ELSE onTokenPreMoveExit(onTokenPreMoveEnter(elevator, t), t))
         EXCEPT !.moves[t].phase = "premoved" ]
  /\ UNCHANGED <<adjusterVars, axis, canvas>>

\* continueTokenAnimationForBehavior(this, tokenD, elevation) is called.
Continue(e, t, override) ==
  [ e EXCEPT !.moves[t].phase = "continued",
             !.moves[t].override = override,
             !.moves[t].seen = e.lastDestination ]

\* #onTokenMoveIn up to its await: return for another user's event, show the
\* dialog, or continue the move at once.
moveInStart(e, t) ==
  LET tokenD == e.moves[t]
      takeElevator == ~e.strict \/ tokenD.elevation \in getStopsAndElevations.elevations
  IN  IF tokenD.user # "self" THEN [ e EXCEPT !.moves[t].phase = "returned" ]
      ELSE IF takeElevator
        THEN [ e EXCEPT !.moves[t].phase = "awaitIn", !.moves[t].prompted = TRUE ]
        ELSE Continue(e, t, Undefined)

\* #onTokenMoveIn after the dialog has resolved to res, without the test of
\* res != null: Number(null) is 0.
moveInResume_closedIsZero(e, t, res) ==
  LET tokenD == e.moves[t]
      chosenElevation == IF res = Closed THEN 0 ELSE res[1]
      takeElevator == chosenElevation # tokenD.elevation
  IN  Continue([ e EXCEPT !.moves[t].answer = res ], t,
               IF takeElevator THEN Some(chosenElevation) ELSE Undefined)

moveInResume(e, t, res) ==
  LET tokenD == e.moves[t]
      chosenElevation == IF res = Closed THEN 0 ELSE res[1]
      takeElevator == res # Closed /\ chosenElevation # tokenD.elevation
  IN  Continue([ e EXCEPT !.moves[t].answer = res ], t,
               IF takeElevator THEN Some(chosenElevation) ELSE Undefined)

\* #onTokenMoveOut up to its await.
moveOutStart_noStrictTest(e, t) ==
  LET tokenD == e.moves[t]
      resetToGround == e.resetOnExit /\ tokenD.elevation # groundElevation
  IN  IF tokenD.user # "self" THEN [ e EXCEPT !.moves[t].phase = "returned" ]
      ELSE IF resetToGround
        THEN [ e EXCEPT !.moves[t].phase = "awaitOut", !.moves[t].prompted = TRUE ]
        ELSE Continue(e, t, Undefined)

moveOutStart(e, t) ==
  LET tokenD == e.moves[t]
      resetToGround ==
        /\ e.resetOnExit
        /\ tokenD.elevation # groundElevation
        /\ ~e.strict \/ tokenD.elevation \in getStopsAndElevations.elevations
  IN  IF tokenD.user # "self" THEN [ e EXCEPT !.moves[t].phase = "returned" ]
      ELSE IF resetToGround
        THEN [ e EXCEPT !.moves[t].phase = "awaitOut", !.moves[t].prompted = TRUE ]
        ELSE Continue(e, t, Undefined)

\* #onTokenMoveOut after the confirmation has resolved.
moveOutResume(e, t, res) ==
  Continue([ e EXCEPT !.moves[t].answer = Some(res) ], t,
           IF res = "yes" THEN Some(groundElevation) ELSE Undefined)

\* The host sends TOKEN_MOVE_IN for a move that enters the region.
onTokenMoveIn(t) ==
  /\ pc = "elevator"
  /\ elevator.moves[t].phase = "premoved"
  /\ HasSegment(elevator.moves[t].shape, ENTER)
  /\ elevator' = moveInStart([ elevator EXCEPT !.moves[t].event = "in" ], t)
  /\ UNCHANGED <<adjusterVars, axis, canvas>>

\* The floor dialog of #onTokenMoveIn resolves.
onTokenMoveInAnswered(t) ==
  /\ pc = "elevator"
  /\ elevator.moves[t].phase = "awaitIn"
  /\ \E res \in Answers(elevator.moves[t].elevation) :
       elevator' = moveInResume(elevator, t, res)
  /\ UNCHANGED <<adjusterVars, axis, canvas>>

\* The move of t leaves the region: it has an EXIT, and #onTokenPreMove has not
\* made it stop where it enters.
ReachesExit(e, t) ==
  /\ HasSegment(e.moves[t].shape, EXIT)
  /\ e.moves[t].forced \/ e.resetOnExit \/ ~HasSegment(e.moves[t].shape, ENTER)

\* The host sends TOKEN_MOVE_OUT for a move that leaves the region.
onTokenMoveOut(t) ==
  /\ pc = "elevator"
  /\ elevator.moves[t].phase = "premoved"
  /\ ReachesExit(elevator, t)
  /\ elevator' = moveOutStart([ elevator EXCEPT !.moves[t].event = "out" ], t)
  /\ UNCHANGED <<adjusterVars, axis, canvas>>

\* The confirmation of #onTokenMoveOut resolves.
onTokenMoveOutAnswered(t) ==
  /\ pc = "elevator"
  /\ elevator.moves[t].phase = "awaitOut"
  /\ \E res \in Confirms : elevator' = moveOutResume(elevator, t, res)
  /\ UNCHANGED <<adjusterVars, axis, canvas>>

NextElevator ==
  \E t \in Tokens :
    \/ onTokenPreMove(t)
    \/ onTokenMoveIn(t)
    \/ onTokenMoveInAnswered(t)
    \/ onTokenMoveOut(t)
    \/ onTokenMoveOutAnswered(t)
SpecElevator == InitElevator /\ [][NextElevator]_vars

\* A move of the triggering user that #onTokenMoveIn has taken up.
MovedIn(t) == elevator.moves[t].event = "in" /\ elevator.moves[t].user = "self"
MovedOut(t) == elevator.moves[t].event = "out" /\ elevator.moves[t].user = "self"
OnAFloor(t) == elevator.moves[t].elevation \in getStopsAndElevations.elevations

\* C17: on entry, for the user who triggered the move, the floor dialog is
\* shown exactly when strict is off or the token's elevation is one of the
\* floors; the move is continued with an elevation override exactly when the
\* dialog was shown, it was not closed and the elevation chosen differs from the
\* token's, and the override is the elevation chosen; otherwise the move is
\* continued without an override.
C17_MoveInPromptsAndOverrides ==
  elevator # NoElevator =>
    \A t \in Tokens :
      MovedIn(t) =>
        LET move == elevator.moves[t]
        IN  /\ move.phase \in {"awaitIn", "continued"}
            /\ move.prompted <=> (~elevator.strict \/ OnAFloor(t))
            /\ move.phase = "continued" =>
                 /\ move.override # Undefined
                      <=> ( /\ move.prompted
                            /\ move.answer # Closed
                            /\ move.answer[1] # move.elevation )
                 /\ move.override # Undefined => move.override = move.answer

C17_Witness ==
  /\ elevator # NoElevator
  /\ elevator.strict
  /\ MovedIn("a")
  /\ elevator.moves["a"].phase = "continued"
  /\ elevator.moves["a"].elevation = 10
  /\ elevator.moves["a"].override = Some(20)

\* C18: on exit, for the user who triggered the move, the confirmation is shown
\* only when resetOnExit is set, the token's elevation differs from the scene
\* floor and strict is off or the token's elevation is one of the floors; the
\* move is continued with the scene floor as override exactly when those three
\* hold and the user confirms, and without an override otherwise.
C18_MoveOutResetsOnlyWhenConfirmed ==
  elevator # NoElevator =>
    \A t \in Tokens :
      MovedOut(t) =>
        LET move == elevator.moves[t]
            mayReset == /\ elevator.resetOnExit
                        /\ move.elevation # groundElevation
                        /\ ~elevator.strict \/ OnAFloor(t)
        IN  /\ move.phase \in {"awaitOut", "continued"}
            /\ move.prompted <=> mayReset
            /\ move.phase = "continued" =>
                 /\ move.override # Undefined <=> (mayReset /\ move.answer = Some("yes"))
                 /\ move.override # Undefined => move.override = Some(groundElevation)

C18_Witness ==
  /\ elevator # NoElevator
  /\ MovedOut("a")
  /\ elevator.moves["a"].phase = "continued"
  /\ elevator.moves["a"].elevation = 5
  /\ elevator.moves["a"].override = Some(groundElevation)

\* C19: when the handler of a token's move continues the movement, the static
\* lastDestination still is what the pre-move handler of that same move wrote
\* to it, whatever the handlers of the other token's move did in between.
C19_LastDestinationIsTheMovesOwn ==
  elevator # NoElevator =>
    \A t \in Tokens :
      ( /\ elevator.moves[t].phase = "continued"
        /\ elevator.moves[t].remembered # Undefined )
      => elevator.moves[t].seen = elevator.moves[t].remembered

\* Every segment starts at the x, y the segment before it ends at.
Continuous(s) ==
  \A k \in 1..(Len(s) - 1) : s[k].to.x = s[k + 1].from.x /\ s[k].to.y = s[k + 1].from.y

\* C20: a list of segments in which every segment starts at the x, y where the
\* one before it ends is still such a list when the plateau, the stairs or the
\* ramp adjuster or _modifySegments returns it, the inserted vertical moves and
\* the halves of split segments included.
C20_AdjustersKeepSegmentsContinuous ==
  ( /\ pass = 1
    /\ pc \in {"call_stairs", "call_ramp", "done"}
    /\ Continuous(input) )
  => Continuous(segments)

C20_Witness ==
  /\ pass = 1
  /\ pc = "done"
  /\ handler.algorithm = NONE
  /\ behavior.algorithm = RAMP
  /\ freefall
  /\ Continuous(input)
  /\ Len(input) = 3
  /\ Len(segments) >= 5
  /\ \E k \in shared : segments[k + 1].from.x # segments[k + 1].to.x

-----------------------------------------------------------------------------
(* Segment lists with an entry that holds no segment                        *)

\* `if ( !segment ) { console.warn(...); continue; }` of the four scans.
PlateauSkip == At("plateau", NoSegment.type) /\ Iterate("plateau", Locals)
StairsSkip == At("stairs", NoSegment.type) /\ Iterate("stairs", Locals)
RampSkip == At("ramp", NoSegment.type) /\ Iterate("ramp", Locals)
HandlerSkip == At("handler", NoSegment.type) /\ Iterate("handler", Locals)

\* A list of the host with one entry more, which holds no segment.
SparseLists ==
  UNION { { Splice(s, k, 0, << NoSegment >>) : k \in 0..Len(s) } :
            s \in { t \in InputLists : Len(t) < MaxLen } }

InitSparse ==
  /\ segments \in SparseLists
  /\ input = segments
  /\ shared = {}
  /\ \/ /\ behavior \in PlateauBehaviors \cup StairsBehaviors \cup RampBehaviors
        /\ handler = NoHandler
        /\ freefall \in BOOLEAN
        /\ pc = "call_plateau"
     \/ /\ behavior = NoBehavior
        /\ handler \in PlateauHandlers \cup RampHandlers
        /\ freefall = FALSE
        /\ pc = "call_handler"
  /\ terrainFloor = 0
  /\ i = 0
  /\ n = 0
  /\ entered = FALSE
  /\ up = TRUE
  /\ targetElevation = 0
  /\ pass = 1
  /\ firstOut = <<>>
  /\ last = NoStep
  /\ probe = NoProbe
  /\ axis = NoAxis
  /\ canvas = NoCanvas
  /\ elevator = NoElevator

NextSparse ==
  \/ PlateauCall \/ PlateauEnter \/ PlateauMove \/ PlateauExit \/ PlateauSkip \/ PlateauReturn
  \/ StairsCall \/ StairsEnter \/ StairsMove \/ StairsExit \/ StairsSkip \/ StairsReturn
  \/ RampCall \/ RampEnter \/ RampMove \/ RampExit \/ RampSkip \/ RampReturn
  \/ HandlerCall \/ HandlerEnter \/ HandlerMove \/ HandlerExit \/ HandlerSkip \/ HandlerReturn

SpecSparse == InitSparse /\ [][NextSparse]_vars

\* The 0-based indices of the entries of s that hold no segment.
Holes(s) == { k \in 0..(Len(s) - 1) : s[k + 1] = NoSegment }

\* C21: an entry that holds no segment is never fatal to a scan: no scan
\* throws, the step at such an entry changes nothing, every other step keeps
\* the entry in the list, and each scan still runs to the end of the list.
C21_MissingEntryIsSkipped ==
  /\ pc # "threw"
  /\ Cardinality(Holes(segments)) = Cardinality(Holes(input))
  /\ (last.type = NoSegment.type => segments = last.before)
  /\ (pc \in {"plateau", "stairs", "ramp", "handler"} /\ i >= n => i = Len(segments))

\* A scan was at an EXIT that resets to the floor right after the missing
\* entry, and went on to the end of the list.
C21_Witness ==
  /\ pc = "done"
  /\ last.type = EXIT
  /\ last.i > 0
  /\ last.before[last.i] = NoSegment
  /\ last.before[last.i + 1].from.elevation # terrainFloor
  /\ segments[last.i + 1].from.elevation = terrainFloor

-----------------------------------------------------------------------------
(* #rampElevation on an axis of length zero                                 *)

\* Ramp axes whose min and max are one point.
DegenerateAxes ==
  { Some([ min |-> [x |-> x, y |-> 0], max |-> [x |-> x, y |-> 0] ]) : x \in {0, 6} }

DegenerateHandlers ==
  [ algorithm : {RAMP}, plateauElevation : {20}, rampFloor : {0, 10}, rampStepSize : {0, 5},
    minMax : RampAxes \cup DegenerateAxes ]

\* A number that is NaN.
NotANumber == Undefined

\* What a call of #rampElevation can end with.  With min = max the quotient
\* distanceBetween(min, closestPt) / distanceBetween(min, max) has the divisor 0
\* and no statement of the function tests it: foundry.utils.closestPointToSegment
\* throws on the zero-length segment, or returns min, and then t0 is 0 / 0, NaN,
\* both almostEqual tests fail and the call returns Math.round(NaN), NaN.
rampElevationOutcomes(h, waypoint) ==
  IF h.minMax # Undefined /\ h.minMax[1].min = h.minMax[1].max
    THEN { [ threw |-> TRUE, value |-> NotANumber ],
           [ threw |-> FALSE, value |-> NotANumber ] }
    ELSE { [ threw |-> FALSE, value |-> Some(rampElevation(h, waypoint)) ] }

InitDegenerate ==
  /\ segments = <<>>
  /\ input = <<>>
  /\ shared = {}
  /\ behavior = NoBehavior
  /\ handler \in DegenerateHandlers
  /\ freefall = FALSE
  /\ terrainFloor = 0
  /\ i = 0
  /\ n = 0
  /\ entered = FALSE
  /\ up = TRUE
  /\ targetElevation = 0
  /\ pc = "probe_ramp"
  /\ pass = 1
  /\ firstOut = <<>>
  /\ last = NoStep
  /\ probe = NoProbe
  /\ axis = NoAxis
  /\ canvas = NoCanvas
  /\ elevator = NoElevator

\* #rampElevation is called at a location; probe keeps the last two outcomes.
ProbeRamp(location) ==
  /\ pc = "probe_ramp"
  /\ \E outcome \in rampElevationOutcomes(handler, location) :
       probe' = SubSeq(<< [ location |-> location, outcome |-> outcome ] >> \o probe,
                       1, MathMin(2, Len(probe) + 1))
  /\ UNCHANGED <<segments, shared, i, n, entered, up, targetElevation, pc, behavior, handler,
                 freefall, terrainFloor, pass, input, firstOut, last, axis, canvas, elevator>>

NextDegenerate == \E location \in ProbeLocations : ProbeRamp(location)
SpecDegenerate == InitDegenerate /\ [][NextDegenerate]_vars

\* C22: on a ramp axis whose min and max coincide, #rampElevation does not
\* throw and returns the ramp floor at every location.
C22_DegenerateAxisGivesRampFloor ==
  handler.minMax[1].min = handler.minMax[1].max
  => \A k \in 1..Len(probe) :
       /\ ~probe[k].outcome.threw
       /\ probe[k].outcome.value = Some(handler.rampFloor)

-----------------------------------------------------------------------------
(* The cutaway of a region along a travel line: #quadrangle2dCutaway        *)
(* Region polygons are rectangles with sides along x and y, the travel line *)
(* runs along x at a y within the rectangle, so distances are differences   *)
(* of x.                                                                    *)

MAX_ELEV == 1000000
MIN_ELEV == -1000000

CutPolygons ==
  [ left : {0}, right : {12}, top : {-6}, bottom : {6}, isPositive : BOOLEAN ]

CutXs == {-4, 3, 9, 16}
CutLines ==
  { ln \in [ start : { Waypoint(x, 0, 0) : x \in CutXs },
             end : { Waypoint(x, 0, 0) : x \in CutXs } ] : ln.start # ln.end }

\* PIXI.Point.distanceBetween of two points of the travel line.
distanceBetween(p, q) == IF p.x >= q.x THEN p.x - q.x ELSE q.x - p.x

\* The points where start -> end crosses the boundary of the rectangle, each
\* with t0, its parametric position on start -> end (here times the squared
\* length of the line, which keeps it integral and keeps the order).
Crossings(poly, start, end) ==
  { [ x |-> x, y |-> start.y, elevation |-> 0, t0 |-> (x - start.x) * (end.x - start.x) ] :
      x \in { c \in {poly.left, poly.right} :
                MathMin(start.x, end.x) < c /\ c < MathMax(start.x, end.x) } }

\* regionPoly.segmentIntersections(start, end): the crossings in the order the
\* edges of the polygon are walked, which is either.
segmentIntersections(poly, start, end) ==
  LET c == Crossings(poly, start, end)
  IN { ix \in UNION { [1..len -> c] : len \in 0..2 } :
         /\ Len(ix) = Cardinality(c)
         /\ \A j, k \in 1..Len(ix) : j # k => ix[j] # ix[k] }

contains(poly, x, y) ==
  poly.left < x /\ x < poly.right /\ poly.top < y /\ y < poly.bottom

\* regionPoly.lineSegmentIntersects(start, end, { inside: true }).
lineSegmentIntersects(poly, start, end) ==
  \/ Crossings(poly, start, end) # {}
  \/ contains(poly, start.x, start.y)

\* The switch on ix.length with the two ends left as found.
CutEnds_asFound(poly, start, end, ix) ==
  CASE Len(ix) = 0 -> << start, end >>
    [] Len(ix) = 1 -> IF contains(poly, start.x, start.y) THEN << start, ix[1] >>
                                                          ELSE << ix[1], end >>
    [] Len(ix) = 2 -> << ix[1], ix[2] >>

\* The switch on ix.length: the two ends a, b of the part within the polygon.
CutEnds(poly, start, end, ix) ==
  CASE Len(ix) = 0 -> << start, end >>
    [] Len(ix) = 1 -> IF contains(poly, start.x, start.y) THEN << start, ix[1] >>
                                                          ELSE << ix[1], end >>
    [] Len(ix) = 2 -> IF ix[1].t0 < ix[2].t0 THEN << ix[1], ix[2] >> ELSE << ix[2], ix[1] >>

\* The quadrangle from a and b on; top and bottom are region.document.elevation.
BuildQuadrangle(h, poly, start, ab, top, bottom, usePlateauElevation) ==
  LET elevated == usePlateauElevation /\ isElevated(h)
      topA == IF elevated THEN elevationUponEntry(h, ab[1])
              ELSE IF top = Undefined THEN MAX_ELEV ELSE top[1]
      topB == IF elevated THEN elevationUponEntry(h, ab[2])
              ELSE IF top = Undefined THEN MAX_ELEV ELSE top[1]
      bottomE == IF bottom = Undefined THEN MIN_ELEV ELSE bottom[1]
      TL == Point(distanceBetween(start, ab[1]), topA)
      TR == Point(distanceBetween(start, ab[2]), topB)
      BL == Point(TL.x, bottomE)
      BR == Point(TR.x, bottomE)
  IN IF poly.isPositive THEN << TL, BL, BR, TR >> ELSE << TL, TR, BR, BL >>

\* #quadrangle2dCutaway for one order ix of the intersections: null or the polygon.
quadrangle2dCutaway(h, poly, start, end, ix, top, bottom, usePlateauElevation) ==
  IF ~lineSegmentIntersects(poly, start, end) THEN Undefined
  ELSE Some(BuildQuadrangle(h, poly, start, CutEnds(poly, start, end, ix), top, bottom,
                            usePlateauElevation))

CutHandlers ==
  PlateauHandlers \cup { NoHandler }
  \cup [ algorithm : {RAMP}, plateauElevation : {20}, rampFloor : {0}, rampStepSize : {0},
         minMax : RampAxes ]

InitCutaway ==
  /\ segments = <<>>
  /\ input = <<>>
  /\ shared = {}
  /\ behavior = NoBehavior
  /\ handler \in CutHandlers
  /\ freefall = FALSE
  /\ terrainFloor = 0
  /\ i = 0
  /\ n = 0
  /\ entered = FALSE
  /\ up = TRUE
  /\ targetElevation = 0
  /\ pc = "cutaway"
  /\ pass = 1
  /\ firstOut = <<>>
  /\ last = NoStep
  /\ probe = NoProbe
  /\ axis = NoAxis
  /\ canvas = NoCanvas
  /\ elevator = NoElevator

\* One call of #quadrangle2dCutaway from _region2dCutaway; probe holds the call
\* and what it returned.
Cutaway(poly, line, top, bottom, usePlateauElevation) ==
  /\ pc = "cutaway"
  /\ \E ix \in segmentIntersections(poly, line.start, line.end) :
       probe' = << [ poly |-> poly, start |-> line.start, end |-> line.end, ix |-> ix,
                     top |-> top, bottom |-> bottom,
                     usePlateauElevation |-> usePlateauElevation,
                     quad |-> quadrangle2dCutaway(handler, poly, line.start, line.end, ix,
                                                  top, bottom, usePlateauElevation) ] >>
  /\ UNCHANGED <<segments, shared, i, n, entered, up, targetElevation, pc, behavior, handler,
                 freefall, terrainFloor, pass, input, firstOut, last, axis, canvas, elevator>>

NextCutaway ==
  \E poly \in CutPolygons, line \in CutLines, top \in {Undefined, Some(30)},
     bottom \in {Undefined, Some(0)}, usePlateauElevation \in BOOLEAN :
    Cutaway(poly, line, top, bottom, usePlateauElevation)

SpecCutaway == InitCutaway /\ [][NextCutaway]_vars

\* The crossing of smaller and of larger parametric position of the last call.
CutNear == CHOOSE a \in Crossings(probe[1].poly, probe[1].start, probe[1].end) :
             \A c \in Crossings(probe[1].poly, probe[1].start, probe[1].end) : a.t0 <= c.t0
CutFar == CHOOSE b \in Crossings(probe[1].poly, probe[1].start, probe[1].end) :
            \A c \in Crossings(probe[1].poly, probe[1].start, probe[1].end) : b.t0 >= c.t0
\* The elevation the claim names for the top at a crossing.
CutTop(c) ==
  IF probe[1].usePlateauElevation /\ handler.algorithm \in {PLATEAU, RAMP}
    THEN elevationUponEntry(handler, c)
    ELSE IF probe[1].top = Undefined THEN 1000000 ELSE probe[1].top[1]
CutBottom == IF probe[1].bottom = Undefined THEN -1000000 ELSE probe[1].bottom[1]
Vertices(quad) == { quad[k] : k \in 1..Len(quad) }

-----------------------------------------------------------------------------
\* The list holds no ENTER: the token starts within the region.
StartsWithin(s) == \A k \in 1..Len(s) : s[k].type # ENTER

\* C24: modifySegmentsForStairs and modifySegmentsForRamp return a list that
\* holds no ENTER as it was given: no segment inserted, no elevation changed,
\* whatever reset and freefall are.
C24_StairsAndRampActOnlyOnEntry ==
  ( /\ pass = 1
    /\ pc = "done"
    /\ behavior.algorithm \in {STAIRS, RAMP}
    /\ StartsWithin(input) )
  => segments = input

-----------------------------------------------------------------------------
\* What identifies the segments of a list whatever their elevations.
Shape(s) == [ k \in 1..Len(s) |-> [ type |-> s[k].type, from |-> s[k].from.x, to |-> s[k].to.x ] ]
\* The part of the list s past its first k entries.
Rest(s, k) == SubSeq(s, k + 1, Len(s))
InAScan == pc \in {"plateau", "stairs", "ramp", "handler"}

\* C25: in each scan every segment of the list given is examined once, in
\* order.  After each iteration the part of the list not yet examined is the
\* part that was not yet examined before it, less the segment examined (with
\* the second half of that segment in front if the iteration split it), so a
\* vertical move the iteration inserted lies in the part already examined; the
\* loop bound is the length of the list; and the first iteration is at index 0
\* of the list as given.
C25_EachSegmentExaminedOnceInOrder ==
  /\ InAScan => n = Len(segments)
  /\ (InAScan /\ last.fn # pc) => i = 0
  /\ (InAScan /\ last.fn = pc) =>
       /\ i = ScannedAt + (IF last.type = MOVE THEN 0 ELSE Added)
       /\ \/ Shape(Rest(segments, i)) = Shape(Rest(last.before, ScannedAt))
          \/ /\ last.type = MOVE
             /\ Added = 1
             /\ Shape(Rest(segments, i + 1)) = Shape(Rest(last.before, ScannedAt))
             /\ segments[i + 1].type = MOVE
             /\ segments[i + 1].to.x = Scanned.to.x
             /\ segments[i].from.x = Scanned.from.x

\* A scan inserted a vertical move after an ENTER and one before an EXIT and
\* is at the end of the list.
C25_Witness ==
  /\ InAScan
  /\ pass = 1
  /\ last.fn = pc
  /\ last.type = EXIT
  /\ Added = 1
  /\ Len(segments) = Len(input) + 2
  /\ Len(input) = MaxLen
  /\ i = n

-----------------------------------------------------------------------------
\* C26: after #onTokenPreMove on a move that is not forced and whose segments
\* hold an ENTER, the destination is the to point of that ENTER and what the
\* handler left in lastDestination is the destination that was requested,
\* whatever resetOnExit is and whether or not the segments hold an EXIT; a
\* forced move keeps its destination and nothing is written to lastDestination.
C26_PreMoveStopsAtEntryAndKeepsRequest ==
  \A t \in Tokens :
    LET move == elevator.moves[t]
    IN (pc = "elevator" /\ move.phase # "requested") =>
         /\ (~move.forced /\ HasSegment(move.shape, ENTER)) =>
              /\ move.destination = Place(t, ENTER)
              /\ move.remembered = Some(Place(t, "destination"))
         /\ move.forced =>
              /\ move.destination = Place(t, "destination")
              /\ move.remembered = Undefined

-----------------------------------------------------------------------------
\* C27: at an EXIT that is first in the list, insertVerticalMoveToTerrainFloor
\* takes the EXIT's own from waypoint for the missing previous segment: an
\* EXIT scanned with its from elevation off the terrain floor gets one
\* vertical MOVE from that elevation to the terrain floor before it (1 is
\* returned), and an EXIT already at the terrain floor gets none (0).
C27_FirstExitGetsVerticalMoveFromItsOwnStart ==
  (last.fn = "handler" /\ last.type = EXIT /\ last.i = 0 /\ pc # "threw")
  => IF Scanned.from.elevation # terrainFloor
       THEN /\ Added = 1
            /\ segments[1] = [ type |-> MOVE, from |-> Scanned.from,
                               to |-> [Scanned.from EXCEPT !.elevation = terrainFloor] ]
            /\ i = 2
       ELSE /\ Added = 0
            /\ i = 1

-----------------------------------------------------------------------------
\* The last iteration split the MOVE it examined.
SplitStep == last.fn # "none" /\ last.type = MOVE /\ Added = 1

\* C28: every scan of a list as given by the host ends, and the list returned
\* has at most twice as many segments: an iteration moves i on by at least 1
\* and adds at most one segment, the loop bound stays the length of the list,
\* which never exceeds twice that of the input, and the second half of a split
\* (the segment that starts at the shared waypoint) is not split again.
C28_ScanEndsWithAtMostTwiceTheSegments ==
  pass = 1 =>
    /\ Len(segments) <= 2 * Len(input)
    /\ InAScan => (i <= n /\ n = Len(segments))
    /\ (last.fn # "none" /\ pc # "threw") =>
         /\ Added \in {0, 1}
         /\ i > last.i
    /\ SplitStep => (last.i - 1) \notin shared

\* A scan is over a list of twice the segments it was given, one of them the
\* second half of a split that the scan examined after splitting.
C28_Witness ==
  /\ pass = 1
  /\ pc = "done"
  /\ Len(input) = 2
  /\ Len(segments) = 2 * Len(input)
  /\ shared # {}

-----------------------------------------------------------------------------
\* C29: in the list modifySegmentsForPlateau returns, the vertical MOVE
\* inserted after an ENTER (one that ended off the plateau elevation, above or
\* below) ends at the elevation at which the MOVE that follows it starts.
C29_MoveAfterEntryStartsWhereVerticalMoveEnds ==
  (pc = "call_stairs" /\ last.fn = "plateau") =>
    \A k \in 1..(Len(segments) - 2) :
      ( /\ segments[k].type = ENTER
        /\ segments[k].to.elevation # behavior.elevation
        /\ segments[k + 2].type = MOVE )
      => segments[k + 1].to.elevation = segments[k + 2].from.elevation

-----------------------------------------------------------------------------
\* C30: an EXIT that _modifySegments reaches with the token never entered (no
\* ENTER before it, no MOVE at or across the surface) is left as it is: its
\* elevations and the from elevation of the segment after it are unchanged
\* and no vertical move is inserted.
C30_ExitOfTokenNeverEnteredIsLeftAlone ==
  ( /\ last.fn = "handler"
    /\ last.type = EXIT
    /\ ~last.entered
    /\ \A k \in 1..last.i : last.before[k].type # ENTER
    /\ pc # "threw" )
  => segments = last.before

====
